---- MODULE Spec2Model ----
(***************************************************************************)
(* Model of the coffee-shop order queue engine, queue_manager.py:          *)
(* class Order and class QueueManager.  One action per public method of    *)
(* QueueManager, each taken as one atomic call (a single caller at a       *)
(* time).                                                                  *)
(*                                                                         *)
(* Orders are objects with identity; an order's id (uuid4 in the source)   *)
(* is modelled as its index in the sequence `orders` of every Order object *)
(* ever constructed, so ids are fresh, unique and never reused.            *)
(* The engine reads the wall clock (datetime.now()) at construction of an  *)
(* order and at completion and uses the two readings only through their    *)
(* difference, the actual wait.  The clock belongs to the environment, so  *)
(* the actual wait is an input of complete_order.  It is counted in        *)
(* hundredths of a minute, and average_wait_time is kept in that unit.     *)
(***************************************************************************)
EXTENDS Integers, Sequences, FiniteSets, TLC

\* ---------------------------------------------------------------- bounds
MaxOrders == 3      \* number of add_order calls explored

\* ------------------------------------------------------------ enumerations
QUEUED    == "queued"
PREPARING == "preparing"
READY     == "ready"
COMPLETED == "completed"
CANCELLED == "cancelled"

OrderStatus == {QUEUED, PREPARING, READY, COMPLETED, CANCELLED}

VIP          == "VIP"
MOBILE_ORDER == "MOBILE_ORDER"
REGULAR      == "REGULAR"

Priority == {REGULAR, VIP, MOBILE_ORDER}

\* Python's None, as the value of position_in_queue and of a return value.
None == 0

\* Iteration order of the dict priority_queues (insertion order).
PriorityQueueKeys == <<VIP, MOBILE_ORDER, REGULAR>>

\* (variant: mobile orders are placed ahead of VIP orders)
RebuildOrder_MobileFirst == <<MOBILE_ORDER, VIP, REGULAR>>

\* The list literal _rebuild_main_queue iterates over.
RebuildOrder == <<VIP, MOBILE_ORDER, REGULAR>>

\* ------------------------------------------------------------------ state
VARIABLES
    orders,            \* every Order object constructed so far, by id
    queue,             \* QueueManager.queue: deque of order ids
    priority_queues,   \* QueueManager.priority_queues: Priority -> deque
    preparing_orders,  \* QueueManager.preparing_orders: dict, keys in insertion order
    completed_orders,  \* QueueManager.completed_orders: list
    stats,             \* QueueManager.stats
    last,              \* the most recent call: its name and what it returned
    result,            \* what the most recent query returned
    wait_sum,          \* observer: the sum of the actual waits of the completions
    pc,                \* concurrent callers: each caller's place in its call
    loc,               \* concurrent callers: each caller's local variables
    customer_names,    \* Order.customer_name of the orders, by id (none where
                       \* names play no part)
    http,              \* transport: the response to the most recent request
    events             \* transport: what the most recent request emitted

vars == <<orders, queue, priority_queues, preparing_orders, completed_orders,
          stats, last, result, wait_sum, pc, loc, customer_names, http, events>>

\* What a call made by a single caller leaves alone: the query result, the
\* observer's sum, and everything that belongs to concurrent callers.
callers == <<pc, loc>>

\* The transport layer's outputs.
transport == <<http, events>>

\* What neither a query nor a concurrent caller's step touches.
outside == <<customer_names, http, events>>

aux == <<result, wait_sum, pc, loc, customer_names, http, events>>

\* The state of the QueueManager and of the Order objects it owns.
engine == <<orders, queue, priority_queues, preparing_orders,
            completed_orders, stats>>

\* Order ids a caller may pass.  An id above Len(orders) belongs to no order
\* yet: to the engine it is an unknown id.
IdArgs == 1..MaxOrders

\* The concurrent callers (request threads) explored.
Callers == {1, 2}

\* No query has returned yet; a caller that is in no call has no locals.
NoResult == [op |-> "none"]

NoLocals == [ call |-> "none", order |-> None, i |-> 0, valid |-> TRUE,
              tmp |-> 0, acc |-> NoResult, ret |-> NoResult,
              entry |-> NoResult, snapshots |-> {} ]

\* No request has been answered yet.
NoResponse == [status |-> 0]

\* Item-list lengths and actual waits a caller or the clock may supply.
ItemCounts == {1}

Waits == {0, 1}

\* ------------------------------------------------------- sequence helpers
Contains(s, x) == \E i \in DOMAIN s : s[i] = x

FirstIndexOf(s, x) == CHOOSE i \in DOMAIN s : s[i] = x /\ \A j \in 1..(i - 1) : s[j] # x

\* deque.remove(x) / list removal of the first occurrence; the caller
\* handles the ValueError case (x absent) before using this.
RemoveFirst(s, x) ==
    LET k == FirstIndexOf(s, x)
    IN  SubSeq(s, 1, k - 1) \o SubSeq(s, k + 1, Len(s))

\* deque.popleft() on a non-empty deque: the element it returns.
PopLeftValue_Right(q) == q[Len(q)]

PopLeftValue(q) == Head(q)

\* (variant: the key is not stored)
DictSet_Skip(d, k) == d

\* dict[key] = value on an insertion-ordered dict (only the keys are kept).
DictSet(d, k) == IF Contains(d, k) THEN d ELSE Append(d, k)

\* (variant: the key is looked up but not removed, as dict.get would)
DictPop_Keep(d, k) == d

\* dict.pop(key) for a key that is present.
DictPop(d, k) == RemoveFirst(d, k)

\* ------------------------------------------------------------ class Order
\* (variant: one minute per item)
CalculateWaitTime_OnePerItem(nitems) == 5 + nitems

\* base_time = 5; item_time = len(self.items) * 2
CalculateWaitTime(nitems) == 5 + nitems * 2

NewOrder(nitems, priority) ==
    [ items                |-> nitems,
      priority             |-> priority,
      status               |-> QUEUED,
      estimated_wait_time  |-> CalculateWaitTime(nitems),
      position_in_queue    |-> None ]

\* ----------------------------------------------------- _rebuild_main_queue
\* (variant: the classes are concatenated in the order of the enum values)
RebuildQueue_EnumOrder(pqs) ==
    pqs[REGULAR] \o pqs[VIP] \o pqs[MOBILE_ORDER]

\* queue.clear() followed by queue.extend(...) for each priority in turn.
RebuildQueue(pqs) ==
    pqs[RebuildOrder[1]] \o pqs[RebuildOrder[2]] \o pqs[RebuildOrder[3]]

\* for position, order in enumerate(self.queue): order.position_in_queue =
\* position + 1.  Orders not in the queue are not touched; an order listed
\* more than once keeps the value written last.
\* (variant: the enumerate index is stored without the + 1)
PositionOf_ZeroBased(k) == k - 1

\* k is the 1-based index in the model; enumerate counts from 0.
PositionOf(k) == (k - 1) + 1

AssignPositions(ords, q) ==
    [id \in DOMAIN ords |->
        IF Contains(q, id)
        THEN LET k == CHOOSE i \in DOMAIN q :
                          q[i] = id /\ \A j \in (i + 1)..Len(q) : q[j] # id
             IN  [ords[id] EXCEPT !.position_in_queue = PositionOf(k)]
        ELSE ords[id]]

\* (variant: the order is left in its per-priority deque)
RemoveFromPriorityQueues_Skip(pqs, id) == pqs

\* for priority_queue in self.priority_queues.values(): try remove / break.
\* The order is removed from the first per-priority deque that holds it.
RemoveFromPriorityQueues(pqs, id) ==
    LET holds(n) == Contains(pqs[PriorityQueueKeys[n]], id)
    IN  IF \E n \in 1..3 : holds(n)
        THEN LET n == CHOOSE m \in 1..3 : holds(m) /\ \A l \in 1..(m - 1) : ~holds(l)
             IN  [pqs EXCEPT ![PriorityQueueKeys[n]] = RemoveFirst(@, id)]
        ELSE pqs

SetStatus(ords, id, st) == [ords EXCEPT ![id].status = st]

\* ------------------------------------------------- _update_average_wait_time
\* round(x, 1) of the value num / den (hundredths of a minute): the nearest
\* multiple of a tenth of a minute.  An exact tie is decided by the binary
\* representation of the float, so both neighbours are possible results.
RoundTenth(num, den) ==
    LET lo  == (num \div (10 * den)) * 10
        rem == num - lo * den
    IN  IF 2 * rem < 10 * den THEN {lo}
        ELSE IF 2 * rem > 10 * den THEN {lo + 10}
        ELSE {lo, lo + 10}

\* The possible new values of stats['average_wait_time'], given the
\* already incremented completed_today.
UpdateAverageWaitTime(current_avg, completed_today, actual_wait_time) ==
    IF completed_today = 1
    THEN {actual_wait_time}
    ELSE RoundTenth(current_avg * (completed_today - 1) + actual_wait_time,
                    completed_today)

\* ------------------------------------------------------------------- Init
Init ==
    /\ orders = << >>
    /\ queue = << >>
    /\ priority_queues = [p \in Priority |-> << >>]
    /\ preparing_orders = << >>
    /\ completed_orders = << >>
    /\ stats = [ total_orders      |-> 0,
                 completed_today   |-> 0,
                 average_wait_time |-> 0,
                 peak_queue_length |-> 0 ]
    /\ last = [op |-> "init", ret |-> None]
    /\ result = NoResult
    /\ wait_sum = 0
    /\ pc = [t \in Callers |-> "idle"]
    /\ loc = [t \in Callers |-> NoLocals]
    /\ customer_names = << >>
    /\ http = NoResponse
    /\ events = << >>

\* -------------------------------------------------------------- add_order
\* (variant: appendleft instead of append)
AddOrderPlace_Left(pq, id) == <<id>> \o pq

AddOrderPlace(pq, id) == Append(pq, id)

\* (variant: the peak is overwritten with the current length)
NewPeak_Overwrite(peak, current_queue_length) == current_queue_length

NewPeak(peak, current_queue_length) ==
    IF current_queue_length > peak THEN current_queue_length ELSE peak

AddOrder(nitems, priority) ==
    /\ LET id   == Len(orders) + 1
           ords == Append(orders, NewOrder(nitems, priority))
           pqs  == [priority_queues EXCEPT ![priority] = AddOrderPlace(@, id)]
           q    == RebuildQueue(pqs)
       IN  /\ priority_queues' = pqs
           /\ queue' = q
           /\ orders' = AssignPositions(ords, q)
           /\ stats' = [stats EXCEPT
                          !.total_orders = @ + 1,
                          !.peak_queue_length = NewPeak(@, Len(q))]
           /\ last' = [op |-> "add_order", ret |-> id]
    /\ UNCHANGED <<preparing_orders, completed_orders>>

add_order(nitems, priority) == AddOrder(nitems, priority) /\ UNCHANGED aux

\* --------------------------------------------------------- get_next_order
GetNextOrder ==
    IF queue = << >>
    THEN /\ last' = [op |-> "get_next_order", ret |-> None]
         /\ UNCHANGED engine
    ELSE LET order == PopLeftValue(queue)
             pqs   == RemoveFromPriorityQueues(priority_queues, order)
             q     == RebuildQueue(pqs)
         IN  /\ priority_queues' = pqs
             /\ preparing_orders' = DictSet(preparing_orders, order)
             /\ queue' = q
             /\ orders' = AssignPositions(SetStatus(orders, order, PREPARING), q)
             /\ last' = [op |-> "get_next_order", ret |-> order]
             /\ UNCHANGED <<completed_orders, stats>>

get_next_order == GetNextOrder /\ UNCHANGED aux

\* --------------------------------------------------------- complete_order
\* (variant: completed_today is counted before the id is looked up)
complete_order_CountFirst(order_id) ==
    /\ UNCHANGED aux
    /\ IF ~Contains(preparing_orders, order_id)
       THEN /\ stats' = [stats EXCEPT !.completed_today = @ + 1]
            /\ last' = [op |-> "complete_order", ret |-> FALSE]
            /\ UNCHANGED <<orders, queue, priority_queues, preparing_orders,
                           completed_orders>>
       ELSE LET n == stats.completed_today + 1
            IN  /\ preparing_orders' = DictPop(preparing_orders, order_id)
                /\ orders' = SetStatus(orders, order_id, COMPLETED)
                /\ completed_orders' = Append(completed_orders, order_id)
                /\ \E actual_wait_time \in Waits :
                     \E avg \in UpdateAverageWaitTime(stats.average_wait_time, n,
                                                      actual_wait_time) :
                       stats' = [stats EXCEPT !.completed_today = n,
                                              !.average_wait_time = avg]
                /\ last' = [op |-> "complete_order", ret |-> TRUE]
                /\ UNCHANGED <<queue, priority_queues>>

\* (variant: the completed order is put at the front of the history)
Completion_Front(order_id, actual_wait_time) ==
    LET n == stats.completed_today + 1
    IN  /\ preparing_orders' = DictPop(preparing_orders, order_id)
        /\ orders' = SetStatus(orders, order_id, COMPLETED)
        /\ completed_orders' = <<order_id>> \o completed_orders
        /\ \E avg \in UpdateAverageWaitTime(stats.average_wait_time, n,
                                             actual_wait_time) :
              stats' = [stats EXCEPT !.completed_today = n,
                                     !.average_wait_time = avg]
        /\ last' = [op |-> "complete_order", ret |-> TRUE]
        /\ UNCHANGED <<queue, priority_queues>>

\* The completion of an order found in the preparing map, its actual wait
\* being actual_wait_time.
Completion(order_id, actual_wait_time) ==
    LET n == stats.completed_today + 1
    IN  /\ preparing_orders' = DictPop(preparing_orders, order_id)
        /\ orders' = SetStatus(orders, order_id, COMPLETED)
        /\ completed_orders' = Append(completed_orders, order_id)
        /\ \E avg \in UpdateAverageWaitTime(stats.average_wait_time, n,
                                             actual_wait_time) :
              stats' = [stats EXCEPT !.completed_today = n,
                                     !.average_wait_time = avg]
        /\ last' = [op |-> "complete_order", ret |-> TRUE]
        /\ UNCHANGED <<queue, priority_queues>>

\* actual_wait_time is (datetime.now() - order.created_at) in minutes, read
\* only once the order was found in the preparing map.
CompleteOrder(order_id) ==
    IF ~Contains(preparing_orders, order_id)
    THEN /\ last' = [op |-> "complete_order", ret |-> FALSE]
         /\ UNCHANGED engine
    ELSE \E actual_wait_time \in Waits : Completion(order_id, actual_wait_time)

complete_order(order_id) == CompleteOrder(order_id) /\ UNCHANGED aux

\* complete_order watched by an observer that adds up the actual waits.
complete_order_observed(order_id) ==
    /\ UNCHANGED <<result, callers, outside>>
    /\ IF ~Contains(preparing_orders, order_id)
       THEN /\ last' = [op |-> "complete_order", ret |-> FALSE]
            /\ UNCHANGED <<engine, wait_sum>>
       ELSE \E actual_wait_time \in Waits :
              /\ Completion(order_id, actual_wait_time)
              /\ wait_sum' = wait_sum + actual_wait_time

\* ----------------------------------------------------------- cancel_order
\* (variant: only the pending queue is searched, not the preparing map)
cancel_order_QueueOnly(order_id) ==
    /\ UNCHANGED aux
    /\ IF Contains(queue, order_id)
       THEN LET pqs == RemoveFromPriorityQueues(priority_queues, order_id)
                q   == RebuildQueue(pqs)
            IN  /\ priority_queues' = pqs
                /\ queue' = q
                /\ orders' = AssignPositions(SetStatus(orders, order_id, CANCELLED), q)
                /\ last' = [op |-> "cancel_order", ret |-> TRUE]
                /\ UNCHANGED <<preparing_orders, completed_orders, stats>>
       ELSE /\ last' = [op |-> "cancel_order", ret |-> FALSE]
            /\ UNCHANGED engine

\* (variant: _rebuild_main_queue is not called after the removal)
cancel_order_NoRebuild(order_id) ==
    /\ UNCHANGED aux
    /\ IF Contains(queue, order_id)
       THEN /\ priority_queues' = RemoveFromPriorityQueues(priority_queues, order_id)
            /\ queue' = RemoveFirst(queue, order_id)
            /\ orders' = SetStatus(orders, order_id, CANCELLED)
            /\ last' = [op |-> "cancel_order", ret |-> TRUE]
            /\ UNCHANGED <<preparing_orders, completed_orders, stats>>
       ELSE IF Contains(preparing_orders, order_id)
       THEN /\ preparing_orders' = DictPop(preparing_orders, order_id)
            /\ orders' = SetStatus(orders, order_id, CANCELLED)
            /\ last' = [op |-> "cancel_order", ret |-> TRUE]
            /\ UNCHANGED <<queue, priority_queues, completed_orders, stats>>
       ELSE /\ last' = [op |-> "cancel_order", ret |-> FALSE]
            /\ UNCHANGED engine

\* (variant: a cancelled order that was being prepared is filed as completed)
cancel_order_FileCompleted(order_id) ==
    /\ UNCHANGED aux
    /\ IF Contains(queue, order_id)
       THEN LET pqs == RemoveFromPriorityQueues(priority_queues, order_id)
                q   == RebuildQueue(pqs)
            IN  /\ priority_queues' = pqs
                /\ queue' = q
                /\ orders' = AssignPositions(SetStatus(orders, order_id, CANCELLED), q)
                /\ last' = [op |-> "cancel_order", ret |-> TRUE]
                /\ UNCHANGED <<preparing_orders, completed_orders, stats>>
       ELSE IF Contains(preparing_orders, order_id)
       THEN /\ preparing_orders' = DictPop(preparing_orders, order_id)
            /\ orders' = SetStatus(orders, order_id, CANCELLED)
            /\ completed_orders' = Append(completed_orders, order_id)
            /\ last' = [op |-> "cancel_order", ret |-> TRUE]
            /\ UNCHANGED <<queue, priority_queues, stats>>
       ELSE /\ last' = [op |-> "cancel_order", ret |-> FALSE]
            /\ UNCHANGED engine

\* (variant: the completed history is searched as well)
cancel_order_AnyOrder(order_id) ==
    /\ UNCHANGED aux
    /\ IF Contains(queue, order_id)
       THEN LET pqs == RemoveFromPriorityQueues(priority_queues, order_id)
                q   == RebuildQueue(pqs)
            IN  /\ priority_queues' = pqs
                /\ queue' = q
                /\ orders' = AssignPositions(SetStatus(orders, order_id, CANCELLED), q)
                /\ last' = [op |-> "cancel_order", ret |-> TRUE]
                /\ UNCHANGED <<preparing_orders, completed_orders, stats>>
       ELSE IF Contains(preparing_orders, order_id)
       THEN /\ preparing_orders' = DictPop(preparing_orders, order_id)
            /\ orders' = SetStatus(orders, order_id, CANCELLED)
            /\ last' = [op |-> "cancel_order", ret |-> TRUE]
            /\ UNCHANGED <<queue, priority_queues, completed_orders, stats>>
       ELSE IF Contains(completed_orders, order_id)
       THEN /\ orders' = SetStatus(orders, order_id, CANCELLED)
            /\ last' = [op |-> "cancel_order", ret |-> TRUE]
            /\ UNCHANGED <<queue, priority_queues, preparing_orders,
                           completed_orders, stats>>
       ELSE /\ last' = [op |-> "cancel_order", ret |-> FALSE]
            /\ UNCHANGED engine

\* (variant: a cancelled order is taken out of total_orders)
cancel_order_Uncount(order_id) ==
    /\ UNCHANGED aux
    /\ IF Contains(queue, order_id)
       THEN LET pqs == RemoveFromPriorityQueues(priority_queues, order_id)
                q   == RebuildQueue(pqs)
            IN  /\ priority_queues' = pqs
                /\ queue' = q
                /\ orders' = AssignPositions(SetStatus(orders, order_id, CANCELLED), q)
                /\ stats' = [stats EXCEPT !.total_orders = @ - 1]
                /\ last' = [op |-> "cancel_order", ret |-> TRUE]
                /\ UNCHANGED <<preparing_orders, completed_orders>>
       ELSE IF Contains(preparing_orders, order_id)
       THEN /\ preparing_orders' = DictPop(preparing_orders, order_id)
            /\ orders' = SetStatus(orders, order_id, CANCELLED)
            /\ stats' = [stats EXCEPT !.total_orders = @ - 1]
            /\ last' = [op |-> "cancel_order", ret |-> TRUE]
            /\ UNCHANGED <<queue, priority_queues, completed_orders>>
       ELSE /\ last' = [op |-> "cancel_order", ret |-> FALSE]
            /\ UNCHANGED engine

CancelOrder(order_id) ==
    IF Contains(queue, order_id)
    THEN LET pqs == RemoveFromPriorityQueues(priority_queues, order_id)
             q   == RebuildQueue(pqs)
         IN  /\ priority_queues' = pqs
             /\ queue' = q
             /\ orders' = AssignPositions(SetStatus(orders, order_id, CANCELLED), q)
             /\ last' = [op |-> "cancel_order", ret |-> TRUE]
             /\ UNCHANGED <<preparing_orders, completed_orders, stats>>
    ELSE IF Contains(preparing_orders, order_id)
    THEN /\ preparing_orders' = DictPop(preparing_orders, order_id)
         /\ orders' = SetStatus(orders, order_id, CANCELLED)
         /\ last' = [op |-> "cancel_order", ret |-> TRUE]
         /\ UNCHANGED <<queue, priority_queues, completed_orders, stats>>
    ELSE /\ last' = [op |-> "cancel_order", ret |-> FALSE]
         /\ UNCHANGED engine

cancel_order(order_id) == CancelOrder(order_id) /\ UNCHANGED aux

\* ------------------------------------------------------------------- Next
\* The calls of a single caller; MaxOrders bounds the orders ever submitted.
Next ==
    \/ \E nitems \in ItemCounts, priority \in Priority :
          Len(orders) < MaxOrders /\ add_order(nitems, priority)
    \/ get_next_order
    \/ \E order_id \in IdArgs : complete_order(order_id)
    \/ \E order_id \in IdArgs : cancel_order(order_id)

Spec == Init /\ [][Next]_vars

\* ================================================================ queries
MinOf(a, b) == IF a <= b THEN a ELSE b

MaxOf(a, b) == IF a >= b THEN a ELSE b

\* Order.to_dict: the fields of the order as they are when it is read.
to_dict(ords, id) ==
    [ id                  |-> id,
      items               |-> ords[id].items,
      priority            |-> ords[id].priority,
      status              |-> ords[id].status,
      estimated_wait_time |-> ords[id].estimated_wait_time,
      position_in_queue   |-> ords[id].position_in_queue ]

\* sum(order.estimated_wait_time for order in sample)
RECURSIVE SumWaitTimes(_, _)
SumWaitTimes(ords, sample) ==
    IF sample = << >> THEN 0
    ELSE ords[Head(sample)].estimated_wait_time + SumWaitTimes(ords, Tail(sample))

\* (variant: every pending order is sampled)
EstimateSample_Whole(q) == q

\* list(self.queue)[:5]
EstimateSample(q) == SubSeq(q, 1, MinOf(5, Len(q)))

\* max(5, total_wait // k), for k > 0
EstimateFrom(total_wait, k) == MaxOf(5, total_wait \div k)

\* _calculate_estimated_wait_time on a queue nobody else is changing
calculate_estimated_wait_time(q, ords) ==
    IF q = << >> THEN 5
    ELSE EstimateFrom(SumWaitTimes(ords, EstimateSample(q)), MinOf(5, Len(q)))

\* list(self.queue)[:10]
ShownOrders(q) == SubSeq(q, 1, MinOf(10, Len(q)))

\* (variant: the reported length is the length of the capped list)
ReportedLength_Capped(q) == Len(ShownOrders(q))

\* len(self.queue)
ReportedLength(q) == Len(q)

ToDicts(ords, ids) == [k \in 1..Len(ids) |-> to_dict(ords, ids[k])]

\* What get_queue_status returns on a state nobody else is changing.
QueueStatus(q, prep, ords) ==
    [ queue_length        |-> ReportedLength(q),
      preparing_count     |-> Len(prep),
      estimated_wait_time |-> calculate_estimated_wait_time(q, ords),
      queue_orders        |-> ToDicts(ords, ShownOrders(q)),
      preparing_orders    |-> ToDicts(ords, prep) ]

\* get_queue_status by a single caller: the engine is only read.
get_queue_status ==
    /\ result' = [op |-> "get_queue_status",
                  ret |-> QueueStatus(queue, preparing_orders, orders)]
    /\ UNCHANGED <<engine, last, wait_sum, callers, outside>>

\* str.lower() on the customer names in use
Lower(name) ==
    CASE name \in {"John", "JOHN", "john"} -> "john"
      [] name \in {"Jane", "jane"}         -> "jane"
      [] OTHER                             -> name

\* (variant: the names are compared as they are written)
NameMatches_Exact(id, customer_name) == customer_names[id] = customer_name

\* order.customer_name.lower() == customer_name.lower()
NameMatches(id, customer_name) == Lower(customer_names[id]) = Lower(customer_name)

\* The orders of a sequence of ids that belong to the customer.
OrdersOf(ids, customer_name) ==
    SelectSeq(ids, LAMBDA id : NameMatches(id, customer_name))

\* (variant: the completed history is searched as well)
CustomerStatus_WithHistory(customer_name) ==
    ToDicts(orders, OrdersOf(queue, customer_name)
                    \o OrdersOf(preparing_orders, customer_name)
                    \o OrdersOf(completed_orders, customer_name))

\* What get_customer_status returns: the customer's orders in the queue,
\* then the customer's orders in the preparing map.
CustomerStatus(customer_name) ==
    ToDicts(orders, OrdersOf(queue, customer_name)
                    \o OrdersOf(preparing_orders, customer_name))

get_customer_status(customer_name) ==
    /\ result' = [op |-> "get_customer_status", arg |-> customer_name,
                  ret |-> CustomerStatus(customer_name)]
    /\ UNCHANGED <<engine, last, wait_sum, callers, outside>>

\* (variant: the window of recent completions starts at the oldest one)
RecentCompletions_Oldest(history) == SubSeq(history, 1, MinOf(10, Len(history)))

\* self.completed_orders[-10:]
RecentCompletions(history) ==
    SubSeq(history, MaxOf(1, Len(history) - 9), Len(history))

\* What get_analytics returns; 'stats' is the statistics dict itself.
Analytics ==
    [ stats              |-> stats,
      queue_by_priority  |-> [p \in Priority |-> Len(priority_queues[p])],
      recent_completions |-> ToDicts(orders, RecentCompletions(completed_orders)) ]

\* (variant: reading the analytics starts a new peak measurement)
get_analytics_NewPeak ==
    /\ result' = [op |-> "get_analytics", ret |-> Analytics]
    /\ stats' = [stats EXCEPT !.peak_queue_length = Len(queue)]
    /\ UNCHANGED <<orders, queue, priority_queues, preparing_orders,
                   completed_orders, last, wait_sum, callers, outside>>

get_analytics ==
    /\ result' = [op |-> "get_analytics", ret |-> Analytics]
    /\ UNCHANGED <<engine, last, wait_sum, callers, outside>>

\* add_order for a named customer: Order.customer_name is kept with the order.
add_order_named(customer_name, nitems, priority) ==
    /\ AddOrder(nitems, priority)
    /\ customer_names' = Append(customer_names, customer_name)
    /\ UNCHANGED <<result, wait_sum, callers, transport>>

\* ===================================================== concurrent callers
\* The engine takes no lock and app.py runs it from the request threads of
\* the server, so a second caller can run between any two statements of a
\* call.  The steps below are the statements of add_order (with
\* _rebuild_main_queue) and of get_queue_status (with
\* _calculate_estimated_wait_time); each step is one call into the deque,
\* the dict or the list, which the interpreter runs without interruption.

\* Orders the concurrent callers may submit between them.
MaxConcOrders == 2

Other(t) == CHOOSE u \in Callers : u # t

Finished(t) == pc[t] \in {"idle", "raised"}

CurrentStatus == QueueStatus(queue, preparing_orders, orders)

\* A deque iterator raises RuntimeError on its next step once the deque was
\* changed by anyone else: every change of self.queue spoils the
\* position loop another caller is in.
Spoil(l, t) ==
    [u \in Callers |->
        IF u # t /\ pc[u] = "position" THEN [l[u] EXCEPT !.valid = FALSE] ELSE l[u]]

\* A query in flight notes the status of each state that a call of the
\* other caller leaves behind.
Note(l, t, status) ==
    [u \in Callers |->
        IF u # t /\ l[u].call = "get_queue_status" /\ ~Finished(u)
        THEN [l[u] EXCEPT !.snapshots = @ \cup {status}] ELSE l[u]]

\* order = Order(customer_name, items, priority)
add_order_create(t, nitems, priority) ==
    /\ Finished(t)
    /\ Len(orders) < MaxConcOrders
    /\ orders' = Append(orders, NewOrder(nitems, priority))
    /\ loc' = [loc EXCEPT ![t] = [NoLocals EXCEPT !.call = "add_order",
                                                  !.order = Len(orders) + 1,
                                                  !.entry = CurrentStatus]]
    /\ pc' = [pc EXCEPT ![t] = "append"]
    /\ UNCHANGED <<queue, priority_queues, preparing_orders, completed_orders,
                   stats, last, result, wait_sum, outside>>

\* self.priority_queues[priority].append(order)
add_order_append(t) ==
    /\ pc[t] = "append"
    /\ priority_queues' = [priority_queues EXCEPT
                             ![orders[loc[t].order].priority] =
                                 AddOrderPlace(@, loc[t].order)]
    /\ pc' = [pc EXCEPT ![t] = "clear"]
    /\ UNCHANGED <<orders, queue, preparing_orders, completed_orders, stats,
                   last, result, wait_sum, loc, outside>>

\* self.queue.clear(); clearing an empty deque changes nothing.
rebuild_clear(t) ==
    /\ pc[t] = "clear"
    /\ queue' = << >>
    /\ loc' = [(IF queue = << >> THEN loc ELSE Spoil(loc, t)) EXCEPT ![t].i = 1]
    /\ pc' = [pc EXCEPT ![t] = "extend"]
    /\ UNCHANGED <<orders, priority_queues, preparing_orders, completed_orders,
                   stats, last, result, wait_sum, outside>>

\* self.queue.extend(self.priority_queues[priority]), one priority per step
rebuild_extend(t) ==
    /\ pc[t] = "extend"
    /\ LET more == priority_queues[RebuildOrder[loc[t].i]]
           l    == IF more = << >> THEN loc ELSE Spoil(loc, t)
       IN  /\ queue' = queue \o more
           /\ IF loc[t].i < Len(RebuildOrder)
              THEN /\ loc' = [l EXCEPT ![t].i = @ + 1]
                   /\ UNCHANGED pc
              ELSE /\ loc' = [l EXCEPT ![t].i = 0]
                   /\ pc' = [pc EXCEPT ![t] = "enumerate"]
    /\ UNCHANGED <<orders, priority_queues, preparing_orders, completed_orders,
                   stats, last, result, wait_sum, outside>>

\* enumerate(self.queue, 1): the iterator is taken on the deque as it is now
rebuild_enumerate(t) ==
    /\ pc[t] = "enumerate"
    /\ loc' = [loc EXCEPT ![t].valid = TRUE, ![t].i = 0]
    /\ pc' = [pc EXCEPT ![t] = "position"]
    /\ UNCHANGED <<engine, last, result, wait_sum, outside>>

\* one turn of the loop: next(iterator); order.position_in_queue = position
rebuild_position(t) ==
    /\ pc[t] = "position"
    /\ IF ~loc[t].valid
       THEN /\ pc' = [pc EXCEPT ![t] = "raised"]
            /\ loc' = Note(loc, t, CurrentStatus)
            /\ UNCHANGED orders
       ELSE IF loc[t].i = Len(queue)
       THEN /\ pc' = [pc EXCEPT ![t] = "count"]
            /\ loc' = [loc EXCEPT ![t].i = 0]
            /\ UNCHANGED orders
       ELSE /\ orders' = [orders EXCEPT ![queue[loc[t].i + 1]].position_in_queue =
                                           PositionOf(loc[t].i + 1)]
            /\ loc' = [loc EXCEPT ![t].i = @ + 1]
            /\ UNCHANGED pc
    /\ UNCHANGED <<queue, priority_queues, preparing_orders, completed_orders,
                   stats, last, result, wait_sum, outside>>

\* self.stats['total_orders'] += 1: the value is read ...
add_order_count_read(t) ==
    /\ pc[t] = "count"
    /\ loc' = [loc EXCEPT ![t].tmp = stats.total_orders]
    /\ pc' = [pc EXCEPT ![t] = "count_store"]
    /\ UNCHANGED <<engine, last, result, wait_sum, outside>>

\* ... and the sum is stored
add_order_count_store(t) ==
    /\ pc[t] = "count_store"
    /\ stats' = [stats EXCEPT !.total_orders = loc[t].tmp + 1]
    /\ loc' = [loc EXCEPT ![t].tmp = 0]
    /\ pc' = [pc EXCEPT ![t] = "peak_len"]
    /\ UNCHANGED <<orders, queue, priority_queues, preparing_orders,
                   completed_orders, last, result, wait_sum, outside>>

\* current_queue_length = len(self.queue)
add_order_peak_len(t) ==
    /\ pc[t] = "peak_len"
    /\ loc' = [loc EXCEPT ![t].tmp = Len(queue)]
    /\ pc' = [pc EXCEPT ![t] = "peak"]
    /\ UNCHANGED <<engine, last, result, wait_sum, outside>>

\* the peak is raised if current_queue_length exceeds it; return order
add_order_return(t) ==
    /\ pc[t] = "peak"
    /\ stats' = [stats EXCEPT !.peak_queue_length = NewPeak(@, loc[t].tmp)]
    /\ last' = [op |-> "add_order", ret |-> loc[t].order]
    /\ loc' = [Note(loc, t, QueueStatus(queue, preparing_orders, orders))
                 EXCEPT ![t].tmp = 0]
    /\ pc' = [pc EXCEPT ![t] = "idle"]
    /\ UNCHANGED <<orders, queue, priority_queues, preparing_orders,
                   completed_orders, result, wait_sum, outside>>

\* get_queue_status starts: 'queue_length': len(self.queue).  A query that
\* starts in the middle of a call of the other caller has the state that
\* call started from as its state before.
status_queue_length(t) ==
    /\ Finished(t)
    /\ loc' = [loc EXCEPT ![t] =
                 [NoLocals EXCEPT
                    !.call = "get_queue_status",
                    !.snapshots = {IF loc[Other(t)].call = "add_order"
                                      /\ ~Finished(Other(t))
                                   THEN loc[Other(t)].entry ELSE CurrentStatus},
                    !.acc = [queue_length |-> ReportedLength(queue)]]]
    /\ pc' = [pc EXCEPT ![t] = "preparing_count"]
    /\ UNCHANGED <<engine, last, result, wait_sum, outside>>

\* 'preparing_count': len(self.preparing_orders), then the test
\* "if not self.queue: return 5" of _calculate_estimated_wait_time
status_preparing_count(t) ==
    /\ pc[t] = "preparing_count"
    /\ IF queue = << >>
       THEN /\ loc' = [loc EXCEPT ![t].acc =
                         [queue_length        |-> loc[t].acc.queue_length,
                          preparing_count     |-> Len(preparing_orders),
                          estimated_wait_time |-> 5]]
            /\ pc' = [pc EXCEPT ![t] = "queue_orders"]
       ELSE /\ loc' = [loc EXCEPT ![t].acc =
                         [queue_length    |-> loc[t].acc.queue_length,
                          preparing_count |-> Len(preparing_orders)]]
            /\ pc' = [pc EXCEPT ![t] = "total_wait"]
    /\ UNCHANGED <<engine, last, result, wait_sum, outside>>

\* total_wait = sum(... for order in list(self.queue)[:5])
status_total_wait(t) ==
    /\ pc[t] = "total_wait"
    /\ loc' = [loc EXCEPT ![t].tmp = SumWaitTimes(orders, EstimateSample(queue))]
    /\ pc' = [pc EXCEPT ![t] = "estimate"]
    /\ UNCHANGED <<engine, last, result, wait_sum, outside>>

\* return max(5, total_wait // min(5, len(self.queue))): the length is read
\* a second time, and a queue that was cleared meanwhile divides by zero.
status_estimate(t) ==
    /\ pc[t] = "estimate"
    /\ LET k        == MinOf(5, Len(queue))
           estimate == EstimateFrom(loc[t].tmp, k)
       IN  IF k = 0
           THEN /\ pc' = [pc EXCEPT ![t] = "raised"]
                /\ loc' = [loc EXCEPT ![t].tmp = 0]
           ELSE /\ pc' = [pc EXCEPT ![t] = "queue_orders"]
                /\ loc' = [loc EXCEPT
                             ![t].tmp = 0,
                             ![t].acc =
                               [queue_length        |-> loc[t].acc.queue_length,
                                preparing_count     |-> loc[t].acc.preparing_count,
                                estimated_wait_time |-> estimate]]
    /\ UNCHANGED <<engine, last, result, wait_sum, outside>>

\* 'queue_orders': [order.to_dict() for order in list(self.queue)[:10]]
status_queue_orders(t) ==
    /\ pc[t] = "queue_orders"
    /\ loc' = [loc EXCEPT ![t].acc =
                 [queue_length        |-> loc[t].acc.queue_length,
                  preparing_count     |-> loc[t].acc.preparing_count,
                  estimated_wait_time |-> loc[t].acc.estimated_wait_time,
                  queue_orders        |-> ToDicts(orders, ShownOrders(queue))]]
    /\ pc' = [pc EXCEPT ![t] = "preparing_orders"]
    /\ UNCHANGED <<engine, last, result, wait_sum, outside>>

\* 'preparing_orders': [...]; the dict is returned
status_return(t) ==
    /\ pc[t] = "preparing_orders"
    /\ loc' = [loc EXCEPT
                 ![t].acc = NoResult,
                 ![t].ret =
                   [queue_length        |-> loc[t].acc.queue_length,
                    preparing_count     |-> loc[t].acc.preparing_count,
                    estimated_wait_time |-> loc[t].acc.estimated_wait_time,
                    queue_orders        |-> loc[t].acc.queue_orders,
                    preparing_orders    |-> ToDicts(orders, preparing_orders)]]
    /\ pc' = [pc EXCEPT ![t] = "idle"]
    /\ UNCHANGED <<engine, last, result, wait_sum, outside>>

NextConc ==
    \E t \in Callers :
        \/ \E nitems \in ItemCounts, priority \in Priority :
              add_order_create(t, nitems, priority)
        \/ add_order_append(t)
        \/ rebuild_clear(t)
        \/ rebuild_extend(t)
        \/ rebuild_enumerate(t)
        \/ rebuild_position(t)
        \/ add_order_count_read(t)
        \/ add_order_count_store(t)
        \/ add_order_peak_len(t)
        \/ add_order_return(t)
        \/ status_queue_length(t)
        \/ status_preparing_count(t)
        \/ status_total_wait(t)
        \/ status_estimate(t)
        \/ status_queue_orders(t)
        \/ status_return(t)

SpecConc == Init /\ [][NextConc]_vars

\* ============================================== completions under watch
\* The calls of a single caller, the observer summing the actual waits.
NextObserved ==
    \/ \E nitems \in ItemCounts, priority \in Priority :
          Len(orders) < MaxOrders /\ add_order(nitems, priority)
    \/ get_next_order
    \/ \E order_id \in IdArgs : complete_order_observed(order_id)
    \/ \E order_id \in IdArgs : cancel_order(order_id)

SpecObserved == Init /\ [][NextObserved]_vars

\* ================================================= orders of several sizes
\* The calls of a single caller on orders of one or three items.
MaxSizedOrders == 2

OrderSizes == {1, 3}

NextSized ==
    \/ \E nitems \in OrderSizes, priority \in Priority :
          Len(orders) < MaxSizedOrders /\ add_order(nitems, priority)
    \/ get_next_order
    \/ \E order_id \in 1..MaxSizedOrders : complete_order(order_id)
    \/ \E order_id \in 1..MaxSizedOrders : cancel_order(order_id)

SpecSized == Init /\ [][NextSized]_vars

\* ==================================================== customers who ask
\* The calls of a single caller for customers with names, on orders of two
\* priority classes; the run ends with a query, so that what the query
\* returned stands next to the state it read.
MaxAskedOrders == 2

\* The customers order in turn: John twice, his name written differently
\* the second time, then Jane twice.
CustomerOfOrder(id) ==
    CASE id % 4 = 1 -> "John"
      [] id % 4 = 2 -> "JOHN"
      [] id % 4 = 3 -> "Jane"
      [] OTHER      -> "jane"

AskedNames == {"john", "Jane", "Bob"}

AskedPriorities == {VIP, REGULAR}

NextAsked ==
    \/ \E priority \in AskedPriorities :
          /\ result = NoResult
          /\ Len(orders) < MaxAskedOrders
          /\ add_order_named(CustomerOfOrder(Len(orders) + 1), 1, priority)
    \/ result = NoResult /\ get_next_order
    \/ \E order_id \in 1..MaxAskedOrders :
          result = NoResult /\ complete_order(order_id)
    \/ \E order_id \in 1..MaxAskedOrders :
          result = NoResult /\ cancel_order(order_id)
    \/ get_queue_status
    \/ \E customer_name \in AskedNames : get_customer_status(customer_name)
    \/ get_analytics

SpecAsked == Init /\ [][NextAsked]_vars

\* ===================================================== a day of orders
\* Enough completions for the window of 10 recent completions to matter.
\* The first VariedDayOrders orders are of any priority and the later ones
\* regular, at most three orders are pending and one is in preparation, and
\* the run ends with the query.
MaxDayOrders == 12

VariedDayOrders == 3

DayPriorities == IF Len(orders) < VariedDayOrders THEN Priority ELSE {REGULAR}

NextDay ==
    \/ \E priority \in DayPriorities :
          /\ result = NoResult
          /\ Len(orders) < MaxDayOrders
          /\ Len(queue) < 3
          /\ add_order(1, priority)
    \/ /\ result = NoResult
       /\ preparing_orders = << >>
       /\ get_next_order
    \/ \E order_id \in 1..MaxDayOrders :
          /\ result = NoResult
          /\ Contains(preparing_orders, order_id)
          /\ complete_order(order_id)
    \/ get_analytics

SpecDay == Init /\ [][NextDay]_vars

\* ======================================================== a queried queue
\* Queues long enough for the caps of get_queue_status (10 orders shown, 5
\* orders sampled) to matter.  The first VariedOrders orders are large VIP
\* orders or small regular ones and the later ones are small regular ones,
\* at most two orders are in preparation, and the run ends with the query,
\* so that what the query returned stands next to the state it read.
MaxQueryOrders == 13

VariedOrders == 6

QueryKinds ==
    IF Len(orders) < VariedOrders
    THEN { <<1, REGULAR>>, <<3, VIP>> }
    ELSE { <<1, REGULAR>> }

NextQuery ==
    \/ \E kind \in QueryKinds :
          /\ result = NoResult
          /\ Len(orders) < MaxQueryOrders
          /\ add_order(kind[1], kind[2])
    \/ /\ result = NoResult
       /\ Len(preparing_orders) < 2
       /\ get_next_order
    \/ get_queue_status

SpecQuery == Init /\ [][NextQuery]_vars

\* =================================================================== claims
Occurrences(s, x) == Cardinality({i \in DOMAIN s : s[i] = x})

Ids == DOMAIN orders

StatusIs(id, st) == id \in Ids /\ orders[id].status = st

\* Ids are handed out in submission order, so "submitted earlier" is "<".
InSubmissionOrder(s) == \A i, j \in DOMAIN s : i < j => s[i] < s[j]

\* C1: the unified queue is always the VIP queue followed by the
\* MOBILE_ORDER queue followed by the REGULAR queue; every per-priority queue
\* holds orders of its own class only, in the order they were submitted.
C1_QueueIsPriorityConcatenation ==
    /\ queue = priority_queues[VIP] \o priority_queues[MOBILE_ORDER]
                                    \o priority_queues[REGULAR]
    /\ \A p \in Priority :
          /\ InSubmissionOrder(priority_queues[p])
          /\ \A i \in DOMAIN priority_queues[p] :
                orders[priority_queues[p][i]].priority = p

\* A later-submitted order of a higher class stands ahead of an earlier one,
\* after a selection has removed the head and the queue was rebuilt.
C1_Witness ==
    /\ last.op = "get_next_order"
    /\ last.ret # None
    /\ Len(queue) = 2
    /\ queue[1] > queue[2]
    /\ orders[queue[1]].priority = MOBILE_ORDER
    /\ orders[queue[2]].priority = REGULAR

\* C2: every order in the unified queue has position_in_queue equal to its
\* 1-based index there, so the positions are exactly 1..n.
C2_PositionsAreIndices ==
    /\ \A i \in DOMAIN queue : orders[queue[i]].position_in_queue = i
    /\ {orders[queue[i]].position_in_queue : i \in DOMAIN queue} = 1..Len(queue)

\* A cancellation of the head has just renumbered the two orders behind it.
C2_Witness ==
    /\ last.op = "cancel_order"
    /\ last.ret = TRUE
    /\ Len(queue) = 2
    /\ \E id \in Ids : /\ orders[id].status = CANCELLED
                        /\ orders[id].position_in_queue = 1
    /\ orders[queue[1]].position_in_queue = 1
    /\ orders[queue[2]].position_in_queue = 2

\* C3: position_in_queue is None for every order that is not pending.
C3_NonPendingHasNoPosition ==
    \A id \in Ids :
        orders[id].status # QUEUED => orders[id].position_in_queue = None

\* C4: every order is held exactly once by exactly one of the per-priority
\* queues, the preparing map and the completed history, unless it was
\* cancelled, and then it is held by none of them.
Holdings(id) ==
    Occurrences(priority_queues[VIP], id)
    + Occurrences(priority_queues[MOBILE_ORDER], id)
    + Occurrences(priority_queues[REGULAR], id)
    + Occurrences(preparing_orders, id)
    + Occurrences(completed_orders, id)

C4_OrderHeldOnce ==
    \A id \in Ids :
        Holdings(id) = (IF orders[id].status = CANCELLED THEN 0 ELSE 1)

\* One order pending, one completed, and one cancelled while being prepared.
C4_Witness ==
    /\ Len(queue) = 1
    /\ Len(completed_orders) = 1
    /\ preparing_orders = << >>
    /\ last.op = "cancel_order"
    /\ last.ret = TRUE
    /\ \E id \in Ids : orders[id].status = CANCELLED /\ Holdings(id) = 0

\* The pending orders of the highest class that has any, and the one of
\* them that was submitted first.
Pending(p) == {id \in Ids : orders[id].status = QUEUED /\ orders[id].priority = p}

HighestPendingClass ==
    IF Pending(VIP) # {} THEN VIP
    ELSE IF Pending(MOBILE_ORDER) # {} THEN MOBILE_ORDER
    ELSE REGULAR

EarliestOfHighestClass ==
    CHOOSE id \in Pending(HighestPendingClass) :
        \A other \in Pending(HighestPendingClass) : id <= other

Without(s, x) == SelectSeq(s, LAMBDA y : y # x)

\* C5: get_next_order returns the order at position 1 of the unified queue
\* as it was before the call, which is the earliest submitted order of the
\* highest non-empty class, and returns None exactly when the queue was empty.
C5_SelectsHeadOrNone ==
    [][ (last'.op = "get_next_order" /\ get_next_order) =>
          /\ (last'.ret = None) <=> (queue = << >>)
          /\ queue # << >> =>
                /\ last'.ret = queue[1]
                /\ orders[last'.ret].position_in_queue = 1
                /\ last'.ret = EarliestOfHighestClass ]_vars

\* A MOBILE_ORDER order was selected ahead of a REGULAR order submitted
\* before it and still pending.
C5_Witness ==
    /\ last.op = "get_next_order"
    /\ last.ret # None
    /\ orders[last.ret].priority = MOBILE_ORDER
    /\ \E id \in Ids : /\ id < last.ret
                        /\ orders[id].status = QUEUED
                        /\ orders[id].priority = REGULAR

\* C6: when get_next_order returns an order X, X is PREPARING, is a key of
\* the preparing map, is in no pending queue; the unified queue is one
\* shorter and is the old one without X, in the same order.
C6_SelectedMovesToPreparing ==
    [][ (last'.op = "get_next_order" /\ get_next_order /\ last'.ret # None) =>
          LET X == last'.ret
          IN  /\ orders'[X].status = PREPARING
              /\ Occurrences(preparing_orders', X) = 1
              /\ ~Contains(queue', X)
              /\ \A p \in Priority : ~Contains(priority_queues'[p], X)
              /\ Len(queue') = Len(queue) - 1
              /\ queue' = Without(queue, X)
              /\ \A p \in Priority :
                    priority_queues'[p] = Without(priority_queues[p], X) ]_vars

\* The head of a queue of three was selected and is the only order being
\* prepared; the two behind it remain pending.
C6_Witness ==
    /\ last.op = "get_next_order"
    /\ last.ret # None
    /\ orders[last.ret].status = PREPARING
    /\ preparing_orders = <<last.ret>>
    /\ Len(queue) = 2

\* C7: complete_order on an id that is not a key of the preparing map
\* returns False and changes nothing in the engine.
C7_CompleteUnknownIsNoOp ==
    [][ \A id \in IdArgs :
          (/\ last'.op = "complete_order"
           /\ ~Contains(preparing_orders, id)
           /\ complete_order(id)) =>
              /\ last'.ret = FALSE
              /\ UNCHANGED engine ]_vars

\* Every id a caller can pass belongs to an order already COMPLETED, and
\* a further complete_order has just returned False.
C7_Witness ==
    /\ last.op = "complete_order"
    /\ last.ret = FALSE
    /\ \A id \in IdArgs : StatusIs(id, COMPLETED)
    /\ stats.completed_today = MaxOrders

\* C8: complete_order on a key of the preparing map returns True, removes
\* the key, sets the status COMPLETED, appends the order at the end of the
\* completed history and adds one to completed_today; the pending queues,
\* total_orders and peak_queue_length stay.
C8_CompleteMovesToHistory ==
    [][ \A id \in IdArgs :
          (/\ last'.op = "complete_order"
           /\ Contains(preparing_orders, id)
           /\ complete_order(id)) =>
              /\ last'.ret = TRUE
              /\ ~Contains(preparing_orders', id)
              /\ preparing_orders' = Without(preparing_orders, id)
              /\ orders'[id].status = COMPLETED
              /\ completed_orders' = completed_orders \o <<id>>
              /\ stats'.completed_today = stats.completed_today + 1
              /\ stats'.total_orders = stats.total_orders
              /\ stats'.peak_queue_length = stats.peak_queue_length
              /\ UNCHANGED <<queue, priority_queues>> ]_vars

\* A second completion has been appended to the history while a third
\* order is still pending.
C8_Witness ==
    /\ last.op = "complete_order"
    /\ last.ret = TRUE
    /\ Len(completed_orders) = 2
    /\ stats.completed_today = 2
    /\ Len(queue) = 1

\* C9: cancel_order returns False exactly when the id is not the id of an
\* order that is QUEUED or PREPARING, and then it changes nothing.
C9_CancelFalseIffNotLive ==
    [][ \A id \in IdArgs :
          (last'.op = "cancel_order" /\ cancel_order(id)) =>
              /\ (last'.ret = FALSE) <=>
                     ~(StatusIs(id, QUEUED) \/ StatusIs(id, PREPARING))
              /\ last'.ret = FALSE => UNCHANGED engine ]_vars

\* Every id a caller can pass belongs to an order that is COMPLETED or
\* CANCELLED, both occur, and a further cancel_order has returned False.
C9_Witness ==
    /\ last.op = "cancel_order"
    /\ last.ret = FALSE
    /\ \A id \in IdArgs : StatusIs(id, COMPLETED) \/ StatusIs(id, CANCELLED)
    /\ \E id \in IdArgs : StatusIs(id, COMPLETED)
    /\ \E id \in IdArgs : StatusIs(id, CANCELLED)

\* C10: cancel_order on a QUEUED order returns True, removes it from its
\* per-priority queue and from the unified queue, sets its status
\* CANCELLED, keeps the other pending orders in their order with positions
\* 1..n-1, and leaves the preparing map, the completed history and the
\* statistics as they were.
C10_CancelPending ==
    [][ \A id \in IdArgs :
          (/\ last'.op = "cancel_order"
           /\ StatusIs(id, QUEUED)
           /\ cancel_order(id)) =>
              /\ last'.ret = TRUE
              /\ \A p \in Priority :
                    priority_queues'[p] = Without(priority_queues[p], id)
              /\ Occurrences(priority_queues[orders[id].priority], id) = 1
              /\ queue' = Without(queue, id)
              /\ Len(queue') = Len(queue) - 1
              /\ orders'[id].status = CANCELLED
              /\ \A i \in DOMAIN queue' :
                    /\ orders'[queue'[i]].position_in_queue = i
                    /\ orders'[queue'[i]].status = QUEUED
              /\ UNCHANGED <<preparing_orders, completed_orders, stats>> ]_vars

\* The middle one of three pending orders of one class was cancelled: the
\* orders before and behind it are now at positions 1 and 2.
C10_Witness ==
    /\ last.op = "cancel_order"
    /\ last.ret = TRUE
    /\ Len(queue) = 2
    /\ \E id \in Ids : /\ orders[id].status = CANCELLED
                        /\ queue[1] < id
                        /\ id < queue[2]
                        /\ orders[id].priority = orders[queue[1]].priority
                        /\ orders[id].priority = orders[queue[2]].priority

\* C11: cancel_order on a key of the preparing map returns True, removes
\* the key and sets the status CANCELLED; the completed history, all four
\* statistics and the pending queues stay as they were.
C11_CancelPreparing ==
    [][ \A id \in IdArgs :
          (/\ last'.op = "cancel_order"
           /\ Contains(preparing_orders, id)
           /\ cancel_order(id)) =>
              /\ last'.ret = TRUE
              /\ preparing_orders' = Without(preparing_orders, id)
              /\ ~Contains(preparing_orders', id)
              /\ orders'[id].status = CANCELLED
              /\ ~Contains(completed_orders', id)
              /\ UNCHANGED <<completed_orders, stats, queue, priority_queues>> ]_vars

\* An order was cancelled while being prepared: the pending queue never held
\* more than the two orders it holds now, so the third, cancelled order was
\* not in it when the call was made.
C11_Witness ==
    /\ last.op = "cancel_order"
    /\ last.ret = TRUE
    /\ Len(orders) = 3
    /\ Len(queue) = 2
    /\ stats.peak_queue_length = 2
    /\ preparing_orders = << >>
    /\ completed_orders = << >>
    /\ \E id \in Ids : orders[id].status = CANCELLED

\* C12: a status changes only QUEUED -> PREPARING (by get_next_order),
\* PREPARING -> COMPLETED (by complete_order), or QUEUED -> CANCELLED and
\* PREPARING -> CANCELLED (by cancel_order); COMPLETED and CANCELLED are
\* never left, and QUEUED never becomes COMPLETED directly.
AllowedTransition(from, to, op) ==
    \/ from = QUEUED    /\ to = PREPARING /\ op = "get_next_order"
    \/ from = PREPARING /\ to = COMPLETED /\ op = "complete_order"
    \/ from = QUEUED    /\ to = CANCELLED /\ op = "cancel_order"
    \/ from = PREPARING /\ to = CANCELLED /\ op = "cancel_order"

C12_StatusTransitions ==
    [][ \A id \in Ids :
          /\ id \in DOMAIN orders'
          /\ orders'[id].status # orders[id].status =>
                AllowedTransition(orders[id].status, orders'[id].status, last'.op) ]_vars

\* All three orders have reached a terminal status: one was completed and
\* two were cancelled, one of them out of the queue (it still carries the
\* position 2 it had there).
C12_Witness ==
    /\ Len(orders) = 3
    /\ Len(completed_orders) = 1
    /\ queue = << >>
    /\ preparing_orders = << >>
    /\ last.op = "cancel_order"
    /\ last.ret = TRUE
    /\ Cardinality({id \in Ids : orders[id].status = CANCELLED}) = 2
    /\ \E id \in Ids : /\ orders[id].status = CANCELLED
                        /\ orders[id].position_in_queue = 2

\* C13: peak_queue_length never decreases, is never below the current length
\* of the unified queue, and is the running maximum of that length: it
\* starts equal to the initial length and after every step it is the larger
\* of its old value and the new length.

C13_PeakIsRunningMaximum ==
    /\ stats.peak_queue_length = Len(queue)
    /\ [](stats.peak_queue_length >= Len(queue))
    /\ [][ /\ stats'.peak_queue_length >= stats.peak_queue_length
           /\ stats'.peak_queue_length =
                  MaxOf(stats.peak_queue_length, Len(queue')) ]_vars

\* An add_order that did not raise the peak: the queue had been longer.
C13_Witness ==
    /\ last.op = "add_order"
    /\ Len(queue) = 1
    /\ stats.peak_queue_length = 2

\* C14: add_order creates a QUEUED order, puts it at the tail of the queue of
\* its own class, adds one to total_orders, leaves the preparing map and
\* the completed history alone, and returns the order with position_in_queue
\* set to its 1-based index in the rebuilt unified queue.
C14_AddOrder ==
    [][ \A nitems \in ItemCounts, priority \in Priority :
          (last'.op = "add_order" /\ add_order(nitems, priority)) =>
              LET id == last'.ret
              IN  /\ id \notin Ids
                  /\ DOMAIN orders' = Ids \cup {id}
                  /\ orders'[id].status = QUEUED
                  /\ orders'[id].priority = priority
                  /\ orders'[id].items = nitems
                  /\ priority_queues'[priority] =
                         priority_queues[priority] \o <<id>>
                  /\ \A p \in Priority \ {priority} :
                         priority_queues'[p] = priority_queues[p]
                  /\ stats'.total_orders = stats.total_orders + 1
                  /\ UNCHANGED <<preparing_orders, completed_orders>>
                  /\ orders'[id].position_in_queue \in DOMAIN queue'
                  /\ queue'[orders'[id].position_in_queue] = id
                  /\ Occurrences(queue', id) = 1
                  /\ \A other \in Ids :
                         orders'[other].status = orders[other].status ]_vars

\* A second VIP order was submitted: it stands behind the first VIP order
\* and ahead of the REGULAR order submitted before it, at position 2 of 3.
C14_Witness ==
    /\ last.op = "add_order"
    /\ last.ret = 3
    /\ Len(queue) = 3
    /\ queue[2] = 3
    /\ orders[3].position_in_queue = 2
    /\ orders[queue[1]].priority = VIP
    /\ orders[3].priority = VIP
    /\ orders[queue[3]].priority = REGULAR

\* ------------------------------------------------------------------- C15
\* C15: the mutating operations run under mutual exclusion, so whenever no
\* call is in progress the engine is in a state that some serial order of the
\* calls made so far produces: no call has failed half-way, the unified queue
\* is the concatenation of the per-priority queues (no order duplicated or
\* lost), every pending order's position is its index, total_orders counts
\* every order submitted, and the peak never exceeds that count.
AllFinished == \A t \in Callers : Finished(t)

C15_SerialOutcome ==
    AllFinished =>
        /\ \A t \in Callers : pc[t] # "raised"
        /\ queue = RebuildQueue(priority_queues)
        /\ \A k \in 1..Len(queue) : orders[queue[k]].position_in_queue = k
        /\ stats.total_orders = Len(orders)
        /\ stats.peak_queue_length <= Len(orders)

\* ------------------------------------------------------------------- C16
\* C16: a query that runs while the other caller is in a mutating call sees
\* a consistent snapshot: get_queue_status does not fail, and what it
\* returns is what it returns on one of the states between the other
\* caller's calls (the state before or the state after each call that
\* overlapped the query), never something read from a state in between.
C16_ConsistentSnapshot ==
    \A t \in Callers :
        loc[t].call = "get_queue_status" =>
            /\ pc[t] # "raised"
            /\ pc[t] = "idle" => loc[t].ret \in loc[t].snapshots

\* ------------------------------------------------------------------- C17
\* C17: after n completions, average_wait_time is the arithmetic mean of
\* their actual waits up to floating rounding, here: n times the average is
\* less than n hundredths of a minute away from the sum of the waits.
Abs(x) == IF x < 0 THEN -x ELSE x

C17_AverageIsMean ==
    stats.completed_today > 0 =>
        Abs(stats.completed_today * stats.average_wait_time - wait_sum)
            < stats.completed_today

\* ------------------------------------------------------------------- C18
\* C18: the estimated wait reported for a new arrival is 5 on an empty
\* pending queue, and otherwise max(5, floor(S / k)), k being min(5, pending
\* length) and S the sum of estimated_wait_time over the first k orders of
\* the unified queue; orders beyond the fifth have no effect.
RECURSIVE WaitOfFirst(_)
WaitOfFirst(k) ==
    IF k = 0 THEN 0
    ELSE orders[queue[k]].estimated_wait_time + WaitOfFirst(k - 1)

ExpectedEstimate ==
    IF Len(queue) = 0 THEN 5
    ELSE LET k == IF Len(queue) < 5 THEN Len(queue) ELSE 5
             S == WaitOfFirst(k)
         IN  IF S \div k < 5 THEN 5 ELSE S \div k

C18_EstimatedWaitTime ==
    [][ get_queue_status =>
          result'.ret.estimated_wait_time = ExpectedEstimate ]_vars

\* A query on six pending orders, five large ones and then a small one: the
\* estimate is that of the first five alone.
C18_Witness ==
    /\ result.op = "get_queue_status"
    /\ Len(queue) = 6
    /\ \A k \in 1..5 : orders[queue[k]].estimated_wait_time = 11
    /\ orders[queue[6]].estimated_wait_time = 7
    /\ result.ret.estimated_wait_time = 11

\* ------------------------------------------------------------------- C19
\* C19: every order's estimated_wait_time is 5 + 2 * (number of items) from
\* its creation on, and no later operation changes it.
C19_WaitTimeFixedAtCreation ==
    /\ [](\A id \in Ids :
            orders[id].estimated_wait_time = 5 + 2 * orders[id].items)
    /\ [][ \A id \in Ids :
             orders'[id].estimated_wait_time = orders[id].estimated_wait_time ]_vars

\* An order of three items and one of one item, their estimated waits 11 and
\* 7, after the first was selected and completed and the second moved up to
\* position 1 and was cancelled.
C19_Witness ==
    /\ Len(orders) = 2
    /\ orders[1].items = 3 /\ orders[1].estimated_wait_time = 11
    /\ orders[2].items = 1 /\ orders[2].estimated_wait_time = 7
    /\ orders[1].priority = orders[2].priority
    /\ orders[1].status = COMPLETED
    /\ orders[2].status = CANCELLED
    /\ orders[2].position_in_queue = 1

\* ------------------------------------------------------------------- C20
\* C20: get_queue_status reports the full length of the unified pending
\* queue (not capped at 10) and the size of the preparing map, lists the
\* first min(10, queue_length) pending orders in unified-queue order, and
\* lists every order of the preparing map.
C20_QueueStatus ==
    [][ get_queue_status =>
          LET ret   == result'.ret
              shown == IF Len(queue) < 10 THEN Len(queue) ELSE 10
          IN  /\ ret.queue_length = Len(queue)
              /\ ret.preparing_count = Len(preparing_orders)
              /\ Len(ret.queue_orders) = shown
              /\ \A k \in 1..shown :
                    /\ ret.queue_orders[k].id = queue[k]
                    /\ ret.queue_orders[k].status = QUEUED
                    /\ ret.queue_orders[k].position_in_queue = k
              /\ Len(ret.preparing_orders) = Len(preparing_orders)
              /\ \A id \in Ids :
                    Contains(preparing_orders, id) <=>
                        \E k \in 1..Len(ret.preparing_orders) :
                            /\ ret.preparing_orders[k].id = id
                            /\ ret.preparing_orders[k].status = PREPARING ]_vars

\* A query on eleven pending orders, VIP ones ahead of regular ones that
\* were submitted earlier, with two orders in preparation: the length
\* reported is 11 and ten orders are listed.
C20_Witness ==
    /\ result.op = "get_queue_status"
    /\ Len(queue) = 11
    /\ \E k \in 1..9 : queue[k] > queue[k + 1]
    /\ Len(preparing_orders) = 2
    /\ result.ret.queue_length = 11
    /\ Len(result.ret.queue_orders) = 10
    /\ result.ret.preparing_count = 2
    /\ Len(result.ret.preparing_orders) = 2

\* ------------------------------------------------------------------- C21
\* C21: get_customer_status(name) returns exactly the pending and preparing
\* orders whose customer name equals name ignoring letter case, the pending
\* ones first in unified-queue order, then the preparing ones; completed and
\* cancelled orders are never included.
SameCustomer(id, name) ==
    \/ {customer_names[id], name} \subseteq {"John", "JOHN", "john"}
    \/ {customer_names[id], name} \subseteq {"Jane", "jane"}
    \/ customer_names[id] = name

C21_CustomerStatus ==
    [][ \A name \in AskedNames :
          get_customer_status(name) =>
            LET ret      == result'.ret
                listed   == {ret[k].id : k \in 1..Len(ret)}
                place(k) == IF Contains(queue, ret[k].id)
                            THEN FirstIndexOf(queue, ret[k].id)
                            ELSE Len(queue) + 1
            IN  /\ \A id \in Ids :
                     id \in listed <=>
                        /\ SameCustomer(id, name)
                        /\ StatusIs(id, QUEUED) \/ StatusIs(id, PREPARING)
                /\ \A k \in 1..Len(ret) : \A l \in 1..Len(ret) :
                     k # l => ret[k].id # ret[l].id
                /\ \A k \in 1..Len(ret) : ret[k].status = orders[ret[k].id].status
                /\ \A k \in 1..(Len(ret) - 1) : place(k) <= place(k + 1)
                /\ \A k \in 1..(Len(ret) - 1) :
                     place(k) = place(k + 1) => place(k) = Len(queue) + 1 ]_vars

\* "john" asks while JOHN's later order is pending and John's earlier order
\* is in preparation: the pending order is listed first.
C21_Witness ==
    /\ result.op = "get_customer_status"
    /\ result.arg = "john"
    /\ Len(result.ret) = 2
    /\ result.ret[1].id = 2 /\ result.ret[1].status = QUEUED
    /\ result.ret[2].id = 1 /\ result.ret[2].status = PREPARING
    /\ customer_names[2] = "JOHN"

\* ------------------------------------------------------------------- C22
\* C22: once complete_order(id) has succeeded the order is COMPLETED for
\* good, and from then on no get_queue_status lists it (among the pending
\* or the preparing orders), no get_customer_status lists it, and no
\* get_next_order returns it.
IdsListed(dicts) == {dicts[k].id : k \in 1..Len(dicts)}

C22_CompletedNeverReturned ==
    /\ [][ \A id \in Ids :
             (last'.op = "complete_order" /\ last'.ret = TRUE
                /\ Contains(preparing_orders, id) /\ complete_order(id))
             => orders'[id].status = COMPLETED ]_vars
    /\ [][ \A id \in Ids :
             StatusIs(id, COMPLETED) =>
               /\ orders'[id].status = COMPLETED
               /\ get_queue_status =>
                    /\ id \notin IdsListed(result'.ret.queue_orders)
                    /\ id \notin IdsListed(result'.ret.preparing_orders)
               /\ \A name \in AskedNames :
                    get_customer_status(name) => id \notin IdsListed(result'.ret)
               /\ (last'.op = "get_next_order" /\ get_next_order)
                    => last'.ret # id ]_vars

\* John's first order was completed; afterwards the second order was
\* selected, and "john" asked and was shown the second order only.
C22_Witness ==
    /\ Len(orders) = 2
    /\ orders[1].status = COMPLETED
    /\ completed_orders = <<1>>
    /\ last.op = "get_next_order" /\ last.ret = 2
    /\ result.op = "get_customer_status" /\ result.arg = "john"
    /\ IdsListed(result.ret) = {2}

\* ------------------------------------------------------------------- C23
\* C23: get_analytics reports for each priority the length of that
\* per-priority pending queue, the three counts adding up to the length of
\* the unified queue, and as recent_completions the last min(10, number
\* completed) entries of the completed history, in completion order.
C23_Analytics ==
    [][ get_analytics =>
          LET ret    == result'.ret
              recent == ret.recent_completions
              n      == Len(completed_orders)
              shown  == IF n < 10 THEN n ELSE 10
          IN  /\ \A p \in Priority :
                   ret.queue_by_priority[p] = Len(priority_queues[p])
              /\ ret.queue_by_priority[VIP] + ret.queue_by_priority[MOBILE_ORDER]
                   + ret.queue_by_priority[REGULAR] = Len(queue)
              /\ Len(recent) = shown
              /\ \A k \in 1..shown :
                   /\ recent[k].id = completed_orders[n - shown + k]
                   /\ recent[k].status = COMPLETED ]_vars

\* Analytics after eleven completions, the first two of them not in the
\* order of submission, with one regular order pending: the ten latest
\* completions are listed, the oldest one left out.
C23_Witness ==
    /\ result.op = "get_analytics"
    /\ Len(completed_orders) = 11
    /\ completed_orders[1] > completed_orders[2]
    /\ Len(result.ret.recent_completions) = 10
    /\ result.ret.recent_completions[1].id = completed_orders[2]
    /\ result.ret.recent_completions[10].id = completed_orders[11]
    /\ result.ret.queue_by_priority[REGULAR] = 1

\* ============================================================== transport
\* app.py: the HTTP handlers in front of the one QueueManager of the
\* process.  A handler is taken as one request served from start to finish;
\* http is the response it returns and events is what it emitted, in the
\* order of the emits.  The response is built by the handler's last
\* statement, after every emit.
MaxRequestOrders == 2

\* A value of a field of the JSON body of a request.  Absent: the body has
\* no such key.
JsonString(text) == [type |-> "string", text |-> text, size |-> 0]

JsonList(size) == [type |-> "list", text |-> "", size |-> size]

JsonNumber(n) == [type |-> "number", text |-> "", size |-> n]

JsonNull == [type |-> "null", text |-> "", size |-> 0]

Absent == [type |-> "absent", text |-> "", size |-> 0]

\* data.get(key, default); data.get(key) is Get(field, JsonNull)
Get(field, default) == IF field.type = "absent" THEN default ELSE field

\* (variant: only None counts as no value)
Truthy_NotNull(v) == v.type # "null"

\* The truth value Python gives the value in `not customer_name or not items`
Truthy(v) ==
    CASE v.type = "string" -> v.text # ""
      [] v.type = "list"   -> v.size > 0
      [] v.type = "number" -> v.size # 0
      [] OTHER             -> FALSE

\* str.upper() on the priority strings in use
Upper(text) ==
    CASE text = "vip"     -> "VIP"
      [] text = "regular" -> "REGULAR"
      [] OTHER            -> text

\* Priority[priority_str.upper()] with KeyError caught: the member of that
\* name, REGULAR if there is none.  priority_str is a string here.
PriorityOfName(text) == IF Upper(text) \in Priority THEN Upper(text) ELSE REGULAR

\* safe_emit(event, data, room=room): socketio.emit may raise; safe_emit
\* catches it and returns False, which no handler looks at.
Emit(event, data, room, delivered) ==
    [event |-> event, data |-> data, room |-> room, delivered |-> delivered]

\* (variant: the status is computed before the engine call)
Broadcast_Stale(delivered) ==
    Emit("queue_updated", QueueStatus(queue, preparing_orders, orders),
         "queue_room", delivered)

\* safe_emit('queue_updated', queue_manager.get_queue_status(),
\*           room='queue_room'), evaluated after the engine call returned
Broadcast(delivered) ==
    Emit("queue_updated", QueueStatus(queue', preparing_orders', orders'),
         "queue_room", delivered)

\* safe_emit('analytics_updated', queue_manager.get_analytics(), room='staff_room')
BroadcastAnalytics(delivered) ==
    Emit("analytics_updated", Analytics', "staff_room", delivered)

\* (variant: a declined call is answered like a successful one)
StatusOfDeclined_OK(call) == 200

\* The status of the response to a call the engine declined.
StatusOfDeclined(call) == IF call = "get_next_order" THEN 204 ELSE 404

\* A handler returns without having called or changed the engine.
Rejected(request, status) ==
    /\ http' = [request |-> request, status |-> status]
    /\ events' = << >>
    /\ UNCHANGED <<engine, last, customer_names>>

\* POST /api/orders
create_order(name_field, items_field, priority_field) ==
    LET request       == [op |-> "create_order", customer_name |-> name_field,
                          items |-> items_field, priority |-> priority_field]
        customer_name == Get(name_field, JsonNull)
        items         == Get(items_field, JsonList(0))
        priority_str  == Get(priority_field, JsonString("REGULAR"))
    IN  /\ UNCHANGED <<result, wait_sum, callers>>
        /\ IF ~Truthy(customer_name) \/ ~Truthy(items)
           THEN Rejected(request, 400)
           ELSE IF priority_str.type # "string"
           THEN \* priority_str.upper() raises AttributeError, which is not
                \* the KeyError caught: the handler's except Exception answers
                Rejected(request, 500)
           ELSE /\ AddOrder(items.size, PriorityOfName(priority_str.text))
                /\ customer_names' = Append(customer_names, customer_name.text)
                /\ \E d1, d2 \in BOOLEAN :
                     events' = <<Broadcast(d1), BroadcastAnalytics(d2)>>
                /\ http' = [request |-> request, status |-> 201,
                            order |-> to_dict(orders', Len(orders'))]

\* POST /api/orders/next
app_get_next_order ==
    LET request == [op |-> "get_next_order"]
    IN  /\ UNCHANGED <<result, wait_sum, callers, customer_names>>
        /\ GetNextOrder
        /\ IF last'.ret = None
           THEN /\ http' = [request |-> request,
                            status |-> StatusOfDeclined("get_next_order")]
                /\ events' = << >>
           ELSE /\ \E d1, d2 \in BOOLEAN :
                     events' = <<Broadcast(d1),
                                 Emit("order_started", to_dict(orders', last'.ret),
                                      "staff_room", d2)>>
                /\ http' = [request |-> request, status |-> 200,
                            order |-> to_dict(orders', last'.ret)]

\* POST /api/orders/<order_id>/complete
app_complete_order(order_id) ==
    LET request == [op |-> "complete_order", order_id |-> order_id]
    IN  /\ UNCHANGED <<result, wait_sum, callers, customer_names>>
        /\ CompleteOrder(order_id)
        /\ IF ~last'.ret
           THEN /\ http' = [request |-> request,
                            status |-> StatusOfDeclined("complete_order")]
                /\ events' = << >>
           ELSE /\ \E d1, d2, d3 \in BOOLEAN :
                     events' = <<Broadcast(d1),
                                 Emit("order_completed", [order_id |-> order_id],
                                      "staff_room", d2),
                                 BroadcastAnalytics(d3)>>
                /\ http' = [request |-> request, status |-> 200]

\* DELETE /api/orders/<order_id>/cancel
app_cancel_order(order_id) ==
    LET request == [op |-> "cancel_order", order_id |-> order_id]
    IN  /\ UNCHANGED <<result, wait_sum, callers, customer_names>>
        /\ CancelOrder(order_id)
        /\ IF ~last'.ret
           THEN /\ http' = [request |-> request,
                            status |-> StatusOfDeclined("cancel_order")]
                /\ events' = << >>
           ELSE /\ \E d1, d2 \in BOOLEAN :
                     events' = <<Broadcast(d1),
                                 Emit("order_cancelled", [order_id |-> order_id],
                                      "staff_room", d2)>>
                /\ http' = [request |-> request, status |-> 200]

\* The field values the requests explored carry.
NameFields == {JsonString("John"), JsonString(""), Absent}

ItemsFields == {JsonList(1), JsonList(0), Absent}

PriorityFields == {JsonString("VIP"), JsonString("vip"), JsonString("URGENT"),
                   JsonString(""), Absent, JsonNull, JsonNumber(1)}

\* The bodies of the create-order requests explored: every priority value
\* with a name and an item, and every name and item list with the priority
\* missing or null.
CreateBodies ==
    { body \in NameFields \X ItemsFields \X PriorityFields :
        \/ body[3] \in {Absent, JsonNull}
        \/ body[1] = JsonString("John") /\ body[2] = JsonList(1) }

\* The requests of one client after another.
NextTransport ==
    \/ \E body \in CreateBodies :
          /\ Len(orders) < MaxRequestOrders
          /\ create_order(body[1], body[2], body[3])
    \/ app_get_next_order
    \/ \E order_id \in 1..MaxRequestOrders : app_complete_order(order_id)
    \/ \E order_id \in 1..MaxRequestOrders : app_cancel_order(order_id)

SpecTransport == Init /\ [][NextTransport]_vars

\* The requests the claims about the transport layer speak of.
Served(op) == http'.status # 0 /\ http'.request.op = op

\* The field is missing from the body, or its value is empty.
Blank(field) == field \in {Absent, JsonString(""), JsonList(0)}

\* The priority field names one of the three priorities (in any case).
NamesPriority(field) == field.type = "string" /\ Upper(field.text) \in Priority

\* ------------------------------------------------------------------- C24
\* C24: a create-order request with a customer name and items whose
\* priority value is none of VIP, MOBILE_ORDER, REGULAR (a missing, null or
\* non-string value included) is accepted, and the order is created with
\* priority REGULAR.
C24_PriorityCoercedToRegular ==
    [][ ( /\ Served("create_order")
          /\ ~Blank(http'.request.customer_name)
          /\ ~Blank(http'.request.items)
          /\ ~NamesPriority(http'.request.priority) )
        => ( /\ http'.status = 201
             /\ Len(orders') = Len(orders) + 1
             /\ http'.order.priority = REGULAR
             /\ orders'[Len(orders')].priority = REGULAR ) ]_vars

\* ------------------------------------------------------------------- C25
\* C25: a create-order request whose customer name or item list is empty
\* or missing is answered 400; no order is created, the statistics and the
\* queues are unchanged, and nothing is emitted.
C25_InvalidOrderRejected ==
    [][ ( /\ Served("create_order")
          /\ \/ Blank(http'.request.customer_name)
             \/ Blank(http'.request.items) )
        => ( /\ http'.status = 400
             /\ UNCHANGED engine
             /\ UNCHANGED customer_names
             /\ events' = << >> ) ]_vars

\* A request without items, rejected while an order is pending and the
\* statistics are no longer those of an empty engine.
C25_Witness ==
    /\ http.status = 400
    /\ http.request.customer_name = JsonString("John")
    /\ http.request.items = JsonList(0)
    /\ queue = <<1>>
    /\ orders[1].position_in_queue = 1
    /\ stats.total_orders = 1
    /\ stats.peak_queue_length = 1
    /\ events = << >>

\* ------------------------------------------------------------------- C26
\* C26: a complete or cancel request whose engine call returns False is
\* answered 404 and a next-order request on an empty pending queue is
\* answered 204; the engine state is unchanged and no event is emitted.
C26_DeclinedRequests ==
    [][ /\ ( ( /\ \/ Served("complete_order")
                  \/ Served("cancel_order")
               /\ last'.ret = FALSE )
             => ( /\ http'.status = 404
                  /\ UNCHANGED engine
                  /\ events' = << >> ) )
        /\ ( ( Served("get_next_order") /\ queue = << >> )
             => ( /\ http'.status = 204
                  /\ UNCHANGED engine
                  /\ events' = << >> ) ) ]_vars

\* A cancel request for an order that is already completed, answered 404
\* while another order is pending.
C26_Witness ==
    /\ http.status = 404
    /\ http.request.op = "cancel_order"
    /\ Contains(completed_orders, http.request.order_id)
    /\ Len(queue) = 1
    /\ events = << >>

\* ------------------------------------------------------------------- C27
\* C27: a request that the engine can serve (a valid create, a next on a
\* non-empty queue, a complete of a preparing order, a cancel of a pending
\* or preparing order) changes the engine and is answered with success
\* whether or not its emits are delivered; and every request that changed
\* the engine first emitted queue_updated to the queue room, carrying the
\* queue status as it is after the change.
Servable ==
    \/ /\ Served("create_order")
       /\ ~Blank(http'.request.customer_name)
       /\ ~Blank(http'.request.items)
       /\ http'.request.priority.type \in {"string", "absent"}
    \/ Served("get_next_order") /\ queue # << >>
    \/ Served("complete_order") /\ Contains(preparing_orders, http'.request.order_id)
    \/ /\ Served("cancel_order")
       /\ \/ Contains(queue, http'.request.order_id)
          \/ Contains(preparing_orders, http'.request.order_id)

C27_QueueUpdatedBroadcast ==
    [][ /\ Servable => ( engine' # engine /\ http'.status \in {200, 201} )
        /\ engine' # engine =>
             ( /\ http'.status \in {200, 201}
               /\ Len(events') >= 1
               /\ events'[1].event = "queue_updated"
               /\ events'[1].room = "queue_room"
               /\ events'[1].data = QueueStatus(queue', preparing_orders', orders') ) ]_vars

\* The second order was selected: the emit of queue_updated failed, the
\* request succeeded, and the status emitted lists the order left pending
\* and the selected order as preparing.
C27_Witness ==
    /\ http.status = 200
    /\ http.request.op = "get_next_order"
    /\ Len(events) = 2
    /\ events[1].event = "queue_updated"
    /\ ~events[1].delivered
    /\ events[1].data.queue_length = 1
    /\ events[1].data.preparing_count = 1
    /\ events[2].event = "order_started"
    /\ Len(queue) = 1
    /\ Len(preparing_orders) = 1

\* ------------------------------------------------------------------- C28
\* C28: get_queue_status, get_customer_status and get_analytics change no
\* engine state: the queues, every order's fields, the preparing map, the
\* completed history and the four statistics are the same after the call
\* (a step in which one of the three queries returned its result).
C28_QueriesChangeNothing ==
    [][ ( /\ result' # result
          /\ result'.op \in {"get_queue_status", "get_customer_status",
                              "get_analytics"} )
        => ( /\ queue' = queue
             /\ priority_queues' = priority_queues
             /\ orders' = orders
             /\ preparing_orders' = preparing_orders
             /\ completed_orders' = completed_orders
             /\ stats' = stats ) ]_vars

\* The analytics were read with one order preparing and none pending, after
\* the queue had held two orders.
C28_Witness ==
    /\ result.op = "get_analytics"
    /\ queue = << >>
    /\ Len(preparing_orders) = 1
    /\ stats.peak_queue_length = 2
    /\ result.ret.stats = stats

\* =========================================== cancel against get_next_order
\* cancel_order and get_next_order called by two request threads at once,
\* statement by statement; the engine takes no lock.  add_order,
\* complete_order and each _rebuild_main_queue are taken whole here, which
\* leaves out interleavings but adds none.
MaxRaceOrders == 2

RacePriorities == {VIP, REGULAR}

Enter(t, call, order) ==
    [loc EXCEPT ![t] = [NoLocals EXCEPT !.call = call, !.order = order]]

\* for order in list(self.queue): if order.id == order_id.  The copy is
\* taken once; whether the loop finds the order depends on the copy alone.
cancel_scan(t, order_id) ==
    /\ Finished(t)
    /\ loc' = Enter(t, "cancel_order", order_id)
    /\ pc' = [pc EXCEPT ![t] = IF Contains(queue, order_id)
                               THEN "cancel_status" ELSE "cancel_preparing"]
    /\ UNCHANGED <<engine, last, result, wait_sum, outside>>

\* order.status = OrderStatus.CANCELLED
cancel_status(t) ==
    /\ pc[t] = "cancel_status"
    /\ orders' = SetStatus(orders, loc[t].order, CANCELLED)
    /\ pc' = [pc EXCEPT ![t] = "cancel_remove"]
    /\ UNCHANGED <<queue, priority_queues, preparing_orders, completed_orders,
                   stats, last, result, wait_sum, loc, outside>>

\* self.queue.remove(order): ValueError, caught by nobody in the engine, if
\* the order is no longer in the deque
cancel_remove(t) ==
    /\ pc[t] = "cancel_remove"
    /\ IF Contains(queue, loc[t].order)
       THEN /\ queue' = RemoveFirst(queue, loc[t].order)
            /\ pc' = [pc EXCEPT ![t] = "cancel_rebuild"]
       ELSE /\ pc' = [pc EXCEPT ![t] = "raised"]
            /\ UNCHANGED queue
    /\ UNCHANGED <<orders, priority_queues, preparing_orders, completed_orders,
                   stats, last, result, wait_sum, loc, outside>>

\* the order is removed from its per-priority deque; _rebuild_main_queue();
\* return True
cancel_rebuild(t) ==
    /\ pc[t] = "cancel_rebuild"
    /\ LET pqs == RemoveFromPriorityQueues(priority_queues, loc[t].order)
           q   == RebuildQueue(pqs)
       IN  /\ priority_queues' = pqs
           /\ queue' = q
           /\ orders' = AssignPositions(orders, q)
    /\ last' = [op |-> "cancel_order", ret |-> TRUE]
    /\ pc' = [pc EXCEPT ![t] = "idle"]
    /\ UNCHANGED <<preparing_orders, completed_orders, stats, result, wait_sum,
                   loc, outside>>

\* if order_id in self.preparing_orders: order = self.preparing_orders.pop(
\* order_id); otherwise return False
cancel_preparing(t) ==
    /\ pc[t] = "cancel_preparing"
    /\ IF Contains(preparing_orders, loc[t].order)
       THEN /\ preparing_orders' = DictPop(preparing_orders, loc[t].order)
            /\ pc' = [pc EXCEPT ![t] = "cancel_preparing_status"]
            /\ UNCHANGED last
       ELSE /\ pc' = [pc EXCEPT ![t] = "idle"]
            /\ last' = [op |-> "cancel_order", ret |-> FALSE]
            /\ UNCHANGED preparing_orders
    /\ UNCHANGED <<orders, queue, priority_queues, completed_orders, stats,
                   result, wait_sum, loc, outside>>

\* order.status = OrderStatus.CANCELLED; return True
cancel_preparing_status(t) ==
    /\ pc[t] = "cancel_preparing_status"
    /\ orders' = SetStatus(orders, loc[t].order, CANCELLED)
    /\ last' = [op |-> "cancel_order", ret |-> TRUE]
    /\ pc' = [pc EXCEPT ![t] = "idle"]
    /\ UNCHANGED <<queue, priority_queues, preparing_orders, completed_orders,
                   stats, result, wait_sum, loc, outside>>

\* if not self.queue: return None; order = self.queue.popleft()
next_popleft(t) ==
    /\ Finished(t)
    /\ IF queue = << >>
       THEN /\ loc' = [loc EXCEPT ![t] = NoLocals]
            /\ pc' = [pc EXCEPT ![t] = "idle"]
            /\ last' = [op |-> "get_next_order", ret |-> None]
            /\ UNCHANGED queue
       ELSE /\ loc' = Enter(t, "get_next_order", PopLeftValue(queue))
            /\ pc' = [pc EXCEPT ![t] = "next_status"]
            /\ queue' = Tail(queue)
            /\ UNCHANGED last
    /\ UNCHANGED <<orders, priority_queues, preparing_orders, completed_orders,
                   stats, result, wait_sum, outside>>

\* the order is removed from its per-priority deque;
\* order.status = OrderStatus.PREPARING
next_status(t) ==
    /\ pc[t] = "next_status"
    /\ priority_queues' = RemoveFromPriorityQueues(priority_queues, loc[t].order)
    /\ orders' = SetStatus(orders, loc[t].order, PREPARING)
    /\ pc' = [pc EXCEPT ![t] = "next_store"]
    /\ UNCHANGED <<queue, preparing_orders, completed_orders, stats, last,
                   result, wait_sum, loc, outside>>

\* self.preparing_orders[order.id] = order; _rebuild_main_queue();
\* return order
next_store(t) ==
    /\ pc[t] = "next_store"
    /\ preparing_orders' = DictSet(preparing_orders, loc[t].order)
    /\ LET q == RebuildQueue(priority_queues)
       IN  /\ queue' = q
           /\ orders' = AssignPositions(orders, q)
    /\ last' = [op |-> "get_next_order", ret |-> loc[t].order]
    /\ pc' = [pc EXCEPT ![t] = "idle"]
    /\ UNCHANGED <<priority_queues, completed_orders, stats, result, wait_sum,
                   loc, outside>>

NextRace ==
    \/ \E priority \in RacePriorities :
          Len(orders) < MaxRaceOrders /\ add_order(1, priority)
    \/ \E order_id \in 1..MaxRaceOrders :
          Contains(preparing_orders, order_id) /\ complete_order(order_id)
    \/ \E t \in Callers :
          \/ \E order_id \in 1..MaxRaceOrders : cancel_scan(t, order_id)
          \/ cancel_status(t)
          \/ cancel_remove(t)
          \/ cancel_rebuild(t)
          \/ cancel_preparing(t)
          \/ cancel_preparing_status(t)
          \/ next_popleft(t)
          \/ next_status(t)
          \/ next_store(t)

SpecRace == Init /\ [][NextRace]_vars

\* ------------------------------------------------------------------- C29
\* C29: whenever no call is in progress (each caller has returned or its
\* call has failed), every order in a pending queue has status QUEUED,
\* every order in the preparing map has status PREPARING and every order in
\* the completed history has status COMPLETED, also when the calls of
\* concurrent callers interleaved.
C29_StatusMatchesStructure ==
    AllFinished =>
        /\ \A k \in DOMAIN queue : orders[queue[k]].status = QUEUED
        /\ \A p \in Priority : \A k \in DOMAIN priority_queues[p] :
              orders[priority_queues[p][k]].status = QUEUED
        /\ \A k \in DOMAIN preparing_orders :
              orders[preparing_orders[k]].status = PREPARING
        /\ \A k \in DOMAIN completed_orders :
              orders[completed_orders[k]].status = COMPLETED

\* ------------------------------------------------------------------- C30
\* C30: the completed history is append-only: every operation leaves the
\* history it found as a prefix of the history it leaves (no entry removed,
\* reordered or replaced), and the length of the history always equals
\* completed_today.
C30_HistoryAppendOnly ==
    /\ [](Len(completed_orders) = stats.completed_today)
    /\ [][ /\ Len(completed_orders') >= Len(completed_orders)
           /\ SubSeq(completed_orders', 1, Len(completed_orders)) = completed_orders
         ]_vars

\* Two orders were completed, the second submitted first, and a third order
\* was cancelled afterwards: the history holds the two in completion order.
C30_Witness ==
    /\ completed_orders = <<2, 1>>
    /\ stats.completed_today = 2
    /\ Len(orders) = 3
    /\ orders[3].status = CANCELLED
    /\ last.op = "cancel_order" /\ last.ret = TRUE

\* ========================================= get_next_order against itself
\* get_next_order called by two request threads at once.  The test
\* "if not self.queue" and self.queue.popleft() are two statements; the
\* rest of the call is next_status and next_store above.
MaxSelectOrders == 2

\* if not self.queue: return None
select_check(t) ==
    /\ Finished(t)
    /\ IF queue = << >>
       THEN /\ loc' = [loc EXCEPT ![t] = NoLocals]
            /\ pc' = [pc EXCEPT ![t] = "idle"]
            /\ last' = [op |-> "get_next_order", ret |-> None]
       ELSE /\ loc' = Enter(t, "get_next_order", None)
            /\ pc' = [pc EXCEPT ![t] = "select_popleft"]
            /\ UNCHANGED last
    /\ UNCHANGED <<engine, result, wait_sum, outside>>

\* order = self.queue.popleft(): IndexError, caught by nobody in the
\* engine, if the deque is empty by now
select_popleft(t) ==
    /\ pc[t] = "select_popleft"
    /\ IF queue = << >>
       THEN /\ pc' = [pc EXCEPT ![t] = "raised"]
            /\ UNCHANGED <<queue, loc>>
       ELSE /\ loc' = [loc EXCEPT ![t].order = PopLeftValue(queue)]
            /\ pc' = [pc EXCEPT ![t] = "next_status"]
            /\ queue' = Tail(queue)
    /\ UNCHANGED <<orders, priority_queues, preparing_orders, completed_orders,
                   stats, last, result, wait_sum, outside>>

NextSelect ==
    \/ \E priority \in RacePriorities :
          Len(orders) < MaxSelectOrders /\ add_order(1, priority)
    \/ \E t \in Callers :
          \/ select_check(t)
          \/ select_popleft(t)
          \/ next_status(t)
          \/ next_store(t)

SpecSelect == Init /\ [][NextSelect]_vars

\* The order the caller's most recent get_next_order call returned, None
\* if it returned None, made no call yet or failed.
Returned(t) ==
    IF pc[t] = "idle" /\ loc[t].call = "get_next_order" THEN loc[t].order ELSE None

\* ------------------------------------------------------------------- C31
\* C31: when callers invoke get_next_order concurrently, no call raises an
\* error (a caller that finds no order left returns None), and no order is
\* returned to two callers.
C31_SelectedByOneCaller ==
    /\ \A t \in Callers : pc[t] # "raised"
    /\ \A t \in Callers : \A u \in Callers \ {t} :
          Returned(t) # None => Returned(u) # Returned(t)

\* ======================================== complete_order against cancel_order
\* complete_order and cancel_order called by two request threads at once.
\* Each tests "order_id in self.preparing_orders" and then pops the id in a
\* second statement.  add_order, get_next_order, the cancellation of a
\* pending order and what complete_order does after its pop are taken whole.
MaxSettleOrders == 2

\* The locals of a call that starts: its argument, and whether the order is
\* in the preparing map as the call starts.
Begin(t, call, order_id) ==
    [loc EXCEPT ![t] =
        [NoLocals EXCEPT !.call = call, !.order = order_id,
                         !.entry = [op |-> "entry",
                                    preparing |-> Contains(preparing_orders, order_id)]]]

Return(l, t, value) == [l EXCEPT ![t].ret = [op |-> l[t].call, ret |-> value]]

\* if order_id not in self.preparing_orders: return False
complete_check(t, order_id) ==
    /\ Finished(t)
    /\ IF Contains(preparing_orders, order_id)
       THEN /\ loc' = Begin(t, "complete_order", order_id)
            /\ pc' = [pc EXCEPT ![t] = "complete_pop"]
            /\ UNCHANGED last
       ELSE /\ loc' = Return(Begin(t, "complete_order", order_id), t, FALSE)
            /\ pc' = [pc EXCEPT ![t] = "idle"]
            /\ last' = [op |-> "complete_order", ret |-> FALSE]
    /\ UNCHANGED <<engine, result, wait_sum, outside>>

\* order = self.preparing_orders.pop(order_id): KeyError, caught by nobody
\* in the engine, if the id is no longer a key
complete_pop(t) ==
    /\ pc[t] = "complete_pop"
    /\ IF Contains(preparing_orders, loc[t].order)
       THEN /\ preparing_orders' = DictPop(preparing_orders, loc[t].order)
            /\ pc' = [pc EXCEPT ![t] = "complete_record"]
       ELSE /\ pc' = [pc EXCEPT ![t] = "raised"]
            /\ UNCHANGED preparing_orders
    /\ UNCHANGED <<orders, queue, priority_queues, completed_orders, stats,
                   last, result, wait_sum, loc, outside>>

\* order.status = COMPLETED; self.completed_orders.append(order); the
\* statistics are updated; return True
complete_record(t) ==
    /\ pc[t] = "complete_record"
    /\ orders' = SetStatus(orders, loc[t].order, COMPLETED)
    /\ completed_orders' = Append(completed_orders, loc[t].order)
    /\ LET n == stats.completed_today + 1
       IN  \E actual_wait_time \in Waits :
             \E avg \in UpdateAverageWaitTime(stats.average_wait_time, n,
                                              actual_wait_time) :
               stats' = [stats EXCEPT !.completed_today = n,
                                      !.average_wait_time = avg]
    /\ last' = [op |-> "complete_order", ret |-> TRUE]
    /\ loc' = Return(loc, t, TRUE)
    /\ pc' = [pc EXCEPT ![t] = "idle"]
    /\ UNCHANGED <<queue, priority_queues, preparing_orders, result, wait_sum,
                   outside>>

\* for order in list(self.queue): a pending order is cancelled at once; an
\* order that is not in the copy is looked up in the preparing map next
cancel_begin(t, order_id) ==
    /\ Finished(t)
    /\ IF Contains(queue, order_id)
       THEN /\ CancelOrder(order_id)
            /\ loc' = Return(Begin(t, "cancel_order", order_id), t, TRUE)
            /\ UNCHANGED pc
       ELSE /\ loc' = Begin(t, "cancel_order", order_id)
            /\ pc' = [pc EXCEPT ![t] = "cancel_check"]
            /\ UNCHANGED <<engine, last>>
    /\ UNCHANGED <<result, wait_sum, outside>>

\* if order_id in self.preparing_orders: ...; return False
cancel_check(t) ==
    /\ pc[t] = "cancel_check"
    /\ IF Contains(preparing_orders, loc[t].order)
       THEN /\ pc' = [pc EXCEPT ![t] = "cancel_pop"]
            /\ UNCHANGED <<loc, last>>
       ELSE /\ loc' = Return(loc, t, FALSE)
            /\ pc' = [pc EXCEPT ![t] = "idle"]
            /\ last' = [op |-> "cancel_order", ret |-> FALSE]
    /\ UNCHANGED <<engine, result, wait_sum, outside>>

\* order = self.preparing_orders.pop(order_id): KeyError if the id is no
\* longer a key
cancel_pop(t) ==
    /\ pc[t] = "cancel_pop"
    /\ IF Contains(preparing_orders, loc[t].order)
       THEN /\ preparing_orders' = DictPop(preparing_orders, loc[t].order)
            /\ pc' = [pc EXCEPT ![t] = "cancel_mark"]
       ELSE /\ pc' = [pc EXCEPT ![t] = "raised"]
            /\ UNCHANGED preparing_orders
    /\ UNCHANGED <<orders, queue, priority_queues, completed_orders, stats,
                   last, result, wait_sum, loc, outside>>

\* order.status = OrderStatus.CANCELLED; return True
cancel_mark(t) ==
    /\ pc[t] = "cancel_mark"
    /\ orders' = SetStatus(orders, loc[t].order, CANCELLED)
    /\ last' = [op |-> "cancel_order", ret |-> TRUE]
    /\ loc' = Return(loc, t, TRUE)
    /\ pc' = [pc EXCEPT ![t] = "idle"]
    /\ UNCHANGED <<queue, priority_queues, preparing_orders, completed_orders,
                   stats, result, wait_sum, outside>>

NextSettle ==
    \/ \E priority \in RacePriorities :
          Len(orders) < MaxSettleOrders /\ add_order(1, priority)
    \/ queue # << >> /\ get_next_order
    \/ \E t \in Callers :
          \/ \E order_id \in 1..MaxSettleOrders : complete_check(t, order_id)
          \/ complete_pop(t)
          \/ complete_record(t)
          \/ \E order_id \in 1..MaxSettleOrders : cancel_begin(t, order_id)
          \/ cancel_check(t)
          \/ cancel_pop(t)
          \/ cancel_mark(t)

SpecSettle == Init /\ [][NextSettle]_vars

\* ------------------------------------------------------------------- C32
\* C32: when complete_order(id) and cancel_order(id) were both called while
\* the order was in the preparing map, neither call raises; once both have
\* ended, one has returned True and the other False, the order is COMPLETED
\* or CANCELLED, and it is in the completed history, counted in
\* completed_today, exactly if the completion returned True.
Completions(id) == Cardinality({k \in DOMAIN completed_orders : completed_orders[k] = id})

C32_CompleteOrCancel ==
    \A t \in Callers : \A u \in Callers \ {t} :
        ( /\ loc[t].call = "complete_order" /\ loc[u].call = "cancel_order"
          /\ loc[t].order = loc[u].order
          /\ loc[t].entry.preparing /\ loc[u].entry.preparing )
        => /\ pc[t] # "raised" /\ pc[u] # "raised"
           /\ AllFinished =>
                /\ loc[t].ret.ret # loc[u].ret.ret
                /\ orders[loc[t].order].status =
                      (IF loc[t].ret.ret THEN COMPLETED ELSE CANCELLED)
                /\ Completions(loc[t].order) = (IF loc[t].ret.ret THEN 1 ELSE 0)
                /\ stats.completed_today = Len(completed_orders)

\* ------------------------------------------------------------------- C33
\* C33: total_orders always equals the number of add_order calls made (each
\* constructs one order) and the sum of the unified queue's length, the
\* preparing map's size, completed_today and the number of cancelled
\* orders; get_next_order, complete_order and cancel_order leave it alone.
CancelledSoFar == Cardinality({id \in DOMAIN orders : orders[id].status = CANCELLED})

C33_TotalOrders ==
    /\ [](/\ stats.total_orders = Len(orders)
          /\ stats.total_orders = Len(queue) + Len(preparing_orders)
                                    + stats.completed_today + CancelledSoFar)
    /\ [][ last'.op \in {"get_next_order", "complete_order", "cancel_order"}
           => stats'.total_orders = stats.total_orders ]_vars

\* Three orders were submitted: one is pending, one was completed and one
\* was cancelled, by the most recent call.
C33_Witness ==
    /\ stats.total_orders = 3
    /\ Len(queue) = 1
    /\ preparing_orders = << >>
    /\ stats.completed_today = 1
    /\ CancelledSoFar = 1
    /\ last.op = "cancel_order" /\ last.ret = TRUE
    /\ orders[queue[1]].position_in_queue = 1

\* ------------------------------------------------------------------- C34
\* C34: whenever get_next_order selects an order, no order of a higher
\* priority class is pending and no order of the same class submitted
\* earlier is pending.  Hence of two orders of one class that are both
\* selected, the one submitted earlier is selected first, whatever calls on
\* other orders come in between.  Ids are given in the order of submission.
ClassRank(priority) ==
    CASE priority = VIP          -> 1
      [] priority = MOBILE_ORDER -> 2
      [] priority = REGULAR      -> 3

C34_FifoWithinPriority ==
    [][ ( last'.op = "get_next_order" /\ last'.ret # None )
        => LET selected == last'.ret
           IN  /\ Contains(queue, selected)
               /\ \A k \in DOMAIN queue :
                    LET pending == queue[k]
                    IN  pending # selected =>
                          /\ ClassRank(orders[pending].priority)
                               >= ClassRank(orders[selected].priority)
                          /\ orders[pending].priority = orders[selected].priority
                               => pending > selected ]_vars

\* Two regular orders and then a VIP order were submitted; the VIP order
\* was selected first and completed, then the regular orders were selected
\* in the order of their submission.
C34_Witness ==
    /\ Len(orders) = 3
    /\ orders[1].priority = REGULAR
    /\ orders[2].priority = REGULAR
    /\ orders[3].priority = VIP
    /\ completed_orders = <<3>>
    /\ preparing_orders = <<1, 2>>
    /\ last.op = "get_next_order" /\ last.ret = 2

\* ============================================================== selection
\* The calls of a single caller, get_next_order being called again and
\* again: a selection that is possible is not put off for ever.
MaxLiveOrders == 2

NextLive ==
    \/ \E nitems \in ItemCounts, priority \in RacePriorities :
          Len(orders) < MaxLiveOrders /\ add_order(nitems, priority)
    \/ get_next_order
    \/ \E order_id \in 1..MaxLiveOrders : complete_order(order_id)
    \/ \E order_id \in 1..MaxLiveOrders : cancel_order(order_id)

SpecLive == Init /\ [][NextLive]_vars /\ WF_vars(get_next_order)

\* ------------------------------------------------------------------- C35
\* C35: if get_next_order keeps being called and finitely many orders are
\* submitted, every pending order eventually leaves the pending queue; and
\* each get_next_order call on a non-empty queue shortens it by exactly
\* one order, so that with no other call in between a queue of n orders is
\* empty after exactly n calls.
C35_PendingEventuallyLeaves ==
    /\ \A id \in 1..MaxLiveOrders :
          Contains(queue, id) ~> ~Contains(queue, id)
    /\ [][ last'.op = "get_next_order"
           => Len(queue') = (IF queue = << >> THEN 0 ELSE Len(queue) - 1) ]_vars

\* A regular order was overtaken by a VIP order submitted after it and was
\* selected next: two calls emptied the queue of two.
C35_Witness ==
    /\ Len(orders) = 2
    /\ orders[1].priority = REGULAR
    /\ orders[2].priority = VIP
    /\ preparing_orders = <<2, 1>>
    /\ queue = << >>
    /\ stats.peak_queue_length = 2
    /\ last.op = "get_next_order" /\ last.ret = 1

\* =========================================================== held results
\* A caller keeps the value a query returned while the engine goes on
\* serving calls.  get_queue_status and get_customer_status build their
\* result from fresh dicts (Order.to_dict) and numbers.  get_analytics
\* builds fresh values for queue_by_priority and recent_completions, but its
\* 'stats' entry is self.stats, the dict the engine itself updates: what
\* the caller reads there is whatever the engine's dict holds now.
MaxHeldOrders == 2

\* What the caller reads in the result it holds.
HeldValue ==
    IF result.op = "get_analytics"
    THEN [result.ret EXCEPT !.stats = stats]
    ELSE result.ret

NextHeld ==
    \/ \E priority \in AskedPriorities :
          /\ Len(orders) < MaxHeldOrders
          /\ add_order_named(CustomerOfOrder(Len(orders) + 1), 1, priority)
    \/ get_next_order
    \/ \E order_id \in 1..MaxHeldOrders : complete_order(order_id)
    \/ \E order_id \in 1..MaxHeldOrders : cancel_order(order_id)
    \/ result = NoResult /\ get_queue_status
    \/ \E customer_name \in AskedNames :
          result = NoResult /\ get_customer_status(customer_name)
    \/ result = NoResult /\ get_analytics

SpecHeld == Init /\ [][NextHeld]_vars

\* ------------------------------------------------------------------- C36
\* C36: the value a query returned is a snapshot: what its holder reads in
\* it (the stats record of a get_analytics result, the order records of a
\* get_queue_status or get_customer_status result) stays as it was when the
\* query returned, whatever add_order, get_next_order, complete_order and
\* cancel_order calls follow.
C36_ResultIsSnapshot ==
    [][ ( result # NoResult /\ result' = result ) => HeldValue' = HeldValue ]_vars

TypeOK ==
    /\ Len(orders) <= MaxOrders
    /\ \A id \in DOMAIN orders : orders[id].status \in OrderStatus
    /\ stats.peak_queue_length <= MaxOrders

====
